---- MODULE Spec2Model ----
(***************************************************************************)
(* small-log: the AI provider service (src/services/geminiService.ts), the *)
(* settings and entry state it is handed by the App component             *)
(* (src/components/Sidebar.tsx) and the transport it talks to.             *)
(*                                                                         *)
(* Strings of the source that are written in Chinese are rendered by an    *)
(* ASCII gloss of the same literal (the module is ASCII only).             *)
(***************************************************************************)
EXTENDS Integers, Sequences, FiniteSets, TLC

VARIABLES settings, entries, storage, calls, last, ui

vars == <<settings, entries, storage, calls, last, ui>>

(***************************************************************************)
(* Bounds of the model.                                                    *)
(***************************************************************************)
MaxEntries == 2

\* the clock ticks at which the App writes an entry run from 1 to MaxTime
MaxTime == 2

\* the report history is followed up to MaxReports reports
MaxReports == 1

\* the StorageService is followed until it has saved MaxReportId reports
MaxReportId == 52

(***************************************************************************)
(* src/types.ts                                                            *)
(***************************************************************************)
AIProviderType == {"gemini", "deepseek"}

ReportType == {"weekly", "monthly", "yearly"}

DEFAULT_SETTINGS ==
  [activeProvider |-> "deepseek",
   providers |->
     [gemini   |-> [type |-> "gemini", apiKey |-> "",
                    model |-> "gemini-2.0-flash", enabled |-> FALSE],
      deepseek |-> [type |-> "deepseek", apiKey |-> "",
                    model |-> "deepseek-chat", enabled |-> TRUE]],
   language |-> "zh",
   autoAnalyze |-> FALSE]

(***************************************************************************)
(* JavaScript values.  A value is a record tagged by t:                    *)
(*   undefined, null, bool, num, str (a short literal), text (a string     *)
(*   whose characters matter: a sequence of lexical tokens), arr, obj      *)
(*   (members in insertion order).                                         *)
(***************************************************************************)
JUndefined == [t |-> "undefined"]

JNull == [t |-> "null"]

JBool(b) == [t |-> "bool", b |-> b]

JNum(n) == [t |-> "num", n |-> n]

JStr(s) == [t |-> "str", v |-> s]

JText(toks) == [t |-> "text", toks |-> toks]

JArr(items) == [t |-> "arr", items |-> items]

JObj(members) == [t |-> "obj", members |-> members]

Member(k, v) == [key |-> k, value |-> v]

\* undefined and null: property access on them throws a TypeError
IsNullish(v) == v.t \in {"undefined", "null"}

\* JavaScript truthiness (ToBoolean)
Truthy(v) ==
  CASE v.t = "undefined" -> FALSE
    [] v.t = "null" -> FALSE
    [] v.t = "bool" -> v.b
    [] v.t = "num" -> v.n # 0
    [] v.t = "str" -> v.v # ""
    [] v.t = "text" -> v.toks # <<>>
    [] OTHER -> TRUE

\* v[k] for a non-nullish v: the last member named k of an object,
\* undefined for anything else
Prop(v, k) ==
  IF v.t = "obj" /\ \E i \in 1..Len(v.members) : v.members[i].key = k
  THEN LET i == CHOOSE j \in 1..Len(v.members) :
                  /\ v.members[j].key = k
                  /\ \A m \in (j+1)..Len(v.members) : v.members[m].key # k
       IN v.members[i].value
  ELSE JUndefined

\* v[0] for a non-nullish v
First(v) ==
  IF v.t = "arr" /\ Len(v.items) > 0 THEN v.items[1]
  ELSE IF v.t = "obj" THEN Prop(v, "0")
  ELSE JUndefined

\* v?.k
OptProp(v, k) == IF IsNullish(v) THEN JUndefined ELSE Prop(v, k)

(***************************************************************************)
(* JSON text: a sequence of tokens.  p: punctuation, s: string literal,    *)
(* n: number literal, w: bare word.                                        *)
(***************************************************************************)
P(c) == [k |-> "p", v |-> c]

S(s) == [k |-> "s", v |-> s]

N(n) == [k |-> "n", n |-> n]

W(w) == [k |-> "w", v |-> w]

ParseFail == [ok |-> FALSE, val |-> JUndefined, next |-> 0]

ParseOk(v, i) == [ok |-> TRUE, val |-> v, next |-> i]

RECURSIVE ParseValue(_, _)
RECURSIVE ParseElements_prepending(_, _, _)
RECURSIVE ParseElements(_, _, _)
RECURSIVE ParseMembers(_, _, _)

\* the value that starts at token i, and the index after it
ParseValue(toks, i) ==
  IF i > Len(toks) THEN ParseFail
  ELSE LET tok == toks[i] IN
    CASE tok.k = "s" -> ParseOk(JStr(tok.v), i + 1)
      [] tok.k = "n" -> ParseOk(JNum(tok.n), i + 1)
      [] tok.k = "w" ->
           CASE tok.v = "null" -> ParseOk(JNull, i + 1)
             [] tok.v = "true" -> ParseOk(JBool(TRUE), i + 1)
             [] tok.v = "false" -> ParseOk(JBool(FALSE), i + 1)
             [] OTHER -> ParseFail
      [] tok.k = "p" ->
           CASE tok.v = "[" ->
                  IF i + 1 <= Len(toks) /\ toks[i + 1] = P("]")
                  THEN ParseOk(JArr(<<>>), i + 2)
                  ELSE ParseElements(toks, i + 1, <<>>)
             [] tok.v = "{" ->
                  IF i + 1 <= Len(toks) /\ toks[i + 1] = P("}")
                  THEN ParseOk(JObj(<<>>), i + 2)
                  ELSE ParseMembers(toks, i + 1, <<>>)
             [] OTHER -> ParseFail

\* ParseElements, had it put each element in front of the earlier ones
ParseElements_prepending(toks, i, acc) ==
  LET r == ParseValue(toks, i) IN
  IF ~r.ok \/ r.next > Len(toks) THEN ParseFail
  ELSE IF toks[r.next] = P(",")
       THEN ParseElements_prepending(toks, r.next + 1, <<r.val>> \o acc)
  ELSE IF toks[r.next] = P("]")
       THEN ParseOk(JArr(<<r.val>> \o acc), r.next + 1)
  ELSE ParseFail

ParseElements(toks, i, acc) ==
  LET r == ParseValue(toks, i) IN
  IF ~r.ok \/ r.next > Len(toks) THEN ParseFail
  ELSE IF toks[r.next] = P(",")
       THEN ParseElements(toks, r.next + 1, Append(acc, r.val))
  ELSE IF toks[r.next] = P("]")
       THEN ParseOk(JArr(Append(acc, r.val)), r.next + 1)
  ELSE ParseFail

ParseMembers(toks, i, acc) ==
  IF i + 1 > Len(toks) \/ toks[i].k # "s" \/ toks[i + 1] # P(":")
  THEN ParseFail
  ELSE LET r == ParseValue(toks, i + 2) IN
    IF ~r.ok \/ r.next > Len(toks) THEN ParseFail
    ELSE IF toks[r.next] = P(",")
         THEN ParseMembers(toks, r.next + 1,
                           Append(acc, Member(toks[i].v, r.val)))
    ELSE IF toks[r.next] = P("}")
         THEN ParseOk(JObj(Append(acc, Member(toks[i].v, r.val))),
                      r.next + 1)
    ELSE ParseFail

\* JSON.parse(text): ok = FALSE stands for the SyntaxError it throws
JSONParse(toks) ==
  LET r == ParseValue(toks, 1) IN
  IF r.ok /\ r.next = Len(toks) + 1
  THEN [ok |-> TRUE, val |-> r.val]
  ELSE [ok |-> FALSE, val |-> JUndefined]

RECURSIVE JSONStringify(_)
RECURSIVE StringifyItems(_, _)
RECURSIVE StringifyMembers(_, _)

\* JSON.stringify(v) for the values JSON can carry
JSONStringify(v) ==
  CASE v.t = "str" -> <<S(v.v)>>
    [] v.t = "num" -> <<N(v.n)>>
    [] v.t = "bool" -> <<W(IF v.b THEN "true" ELSE "false")>>
    [] v.t = "arr" -> <<P("[")>> \o StringifyItems(v.items, 1) \o <<P("]")>>
    [] v.t = "obj" -> <<P("{")>> \o StringifyMembers(v.members, 1) \o <<P("}")>>
    [] OTHER -> <<W("null")>>

StringifyItems(items, i) ==
  IF i > Len(items) THEN <<>>
  ELSE (IF i > 1 THEN <<P(",")>> ELSE <<>>)
       \o JSONStringify(items[i]) \o StringifyItems(items, i + 1)

StringifyMembers(members, i) ==
  IF i > Len(members) THEN <<>>
  ELSE (IF i > 1 THEN <<P(",")>> ELSE <<>>)
       \o <<S(members[i].key), P(":")>> \o JSONStringify(members[i].value)
       \o StringifyMembers(members, i + 1)

(***************************************************************************)
(* Errors: the class name and the message, the message as the sequence of  *)
(* the pieces its template literal concatenates.                           *)
(***************************************************************************)
Err(name, message) == [name |-> name, message |-> message]

\* a completion of an async function: still pending, resolved or rejected
Pending == [kind |-> "none"]

Returned(v) == [kind |-> "returned", value |-> v]

Threw(e) == [kind |-> "threw", error |-> e]

\* SyntaxError of JSON.parse and of response.json()
SyntaxError == Err("SyntaxError", <<"Unexpected token in JSON">>)

\* TypeError of a property read on v, v undefined or null
TypeErrorOn(v) == Err("TypeError", <<"Cannot read properties of ", v.t>>)

\* `${v}` in a template literal
Interpolate(v) ==
  CASE v.t = "str" -> v.v
    [] v.t = "num" -> ToString(v.n)
    [] v.t = "bool" -> (IF v.b THEN "true" ELSE "false")
    [] v.t = "obj" -> "[object Object]"
    [] OTHER -> v.t

\* String.prototype.toUpperCase on the provider tags
toUpperCase(provider) ==
  IF provider = "deepseek" THEN "DEEPSEEK" ELSE "GEMINI"

\* 'please configure the API key of <PROVIDER> first'
ConfigureKeyError(activeProvider) ==
  Err("Error", <<"[zh: configure first] ", toUpperCase(activeProvider),
                 " [zh: 's] API Key">>)

\* '<PROVIDER> provider is not enabled'
NotEnabledError(activeProvider) ==
  Err("Error", <<toUpperCase(activeProvider), " [zh: provider not enabled]">>)

NoResponseError == Err("Error", <<"No response from Gemini AI">>)

\* 'there are no diary entries to analyze.'
NOTHING_TO_ANALYZE == JText(<<W("[zh: no diary entries to analyze.]")>>)

\* 'could not generate the report.'
REPORT_PLACEHOLDER == JText(<<W("[zh: could not generate report.]")>>)

(***************************************************************************)
(* Prompts.  A prompt is the sequence of the pieces that are concatenated. *)
(***************************************************************************)
REPORT_PROMPTS ==
  [weekly  |-> [title |-> "[zh: weekly report]",
                prompt |-> "Generate a weekly summary report ..."],
   monthly |-> [title |-> "[zh: monthly report]",
                prompt |-> "Generate a monthly summary report ..."],
   yearly  |-> [title |-> "[zh: yearly report]",
                prompt |-> "Generate a comprehensive yearly review ..."]]

ANALYSIS_PROMPT == "Analyze the following diary entry. ... Entry:\n"

ANALYSIS_FORMAT == "\n\nPlease respond with a JSON object containing: ..."

SYSTEM_INSTRUCTION_ANALYSIS == "You are an empathetic, insightful personal diary assistant. ..."

SYSTEM_INSTRUCTION_REPORT == "You are a professional life coach and analyst. ..."

JSON_ONLY_SUFFIX == "\n\nYou must respond with valid JSON only."

RECURSIVE SplitT0(_, _)
\* date.split('T')[0]: a date string is the sequence of its pieces, the
\* piece "T" being the separator; the result is what precedes the first "T"
SplitT0(date, i) ==
  IF i > Len(date) \/ date[i] = "T" THEN <<>>
  ELSE <<date[i]>> \o SplitT0(date, i + 1)

\* one entry of the report context
EntryBlock(e) ==
  <<"[zh: Date]: ">> \o SplitT0(e.date, 1)
  \o <<"\n[zh: Title]: ", e.title, "\n[zh: Content]: ", e.content>>

RECURSIVE JoinBlocks_terminated(_, _)
RECURSIVE JoinBlocks(_, _)
\* JoinBlocks, had the separator line closed every block
JoinBlocks_terminated(es, i) ==
  IF i > Len(es) THEN <<>>
  ELSE EntryBlock(es[i]) \o <<"\n---\n">> \o JoinBlocks_terminated(es, i + 1)

\* entries.map(EntryBlock).join('\n---\n'), from entry i on
JoinBlocks(es, i) ==
  IF i > Len(es) THEN <<>>
  ELSE (IF i > 1 THEN <<"\n---\n">> ELSE <<>>)
       \o EntryBlock(es[i]) \o JoinBlocks(es, i + 1)

\* `${prompt}\n\n[Diary entries]:\n${context}`
ReportPrompt(es, reportType) ==
  <<REPORT_PROMPTS[reportType].prompt, "\n\n[zh: Diary entries]:\n">>
  \o JoinBlocks(es, 1)

(***************************************************************************)
(* DeepSeekAdapter                                                         *)
(***************************************************************************)
DeepSeekAdapter(apiKey, model) ==
  [variant |-> "deepseek", apiKey |-> apiKey, model |-> model,
   baseUrl |-> "https://api.deepseek.com"]

\* chatRequest, had the JSON response format been declared for every request
chatRequest_alwaysJsonFormat(adapter, systemPrompt, userPrompt, jsonMode) ==
  [transport |-> "fetch",
   url |-> <<adapter.baseUrl, "/chat/completions">>,
   authorization |-> <<"Bearer ", adapter.apiKey>>,
   model |-> adapter.model,
   messages |->
     <<[role |-> "system",
        content |-> systemPrompt
                    \o (IF jsonMode THEN <<JSON_ONLY_SUFFIX>> ELSE <<>>)],
       [role |-> "user", content |-> userPrompt]>>,
   stream |-> FALSE,
   response_format |-> "json_object"]

\* the fetch that chat issues
chatRequest(adapter, systemPrompt, userPrompt, jsonMode) ==
  [transport |-> "fetch",
   url |-> <<adapter.baseUrl, "/chat/completions">>,
   authorization |-> <<"Bearer ", adapter.apiKey>>,
   model |-> adapter.model,
   messages |->
     <<[role |-> "system",
        content |-> systemPrompt
                    \o (IF jsonMode THEN <<JSON_ONLY_SUFFIX>> ELSE <<>>)],
       [role |-> "user", content |-> userPrompt]>>,
   stream |-> FALSE,
   response_format |-> IF jsonMode THEN "json_object" ELSE "absent"]

\* response.ok
Ok(status) == 200 <= status /\ status <= 299

\* chat, had it refused a completion without content
chat_requiresContent(resp) ==
  IF resp.kind = "reject" THEN Threw(resp.error)
  ELSE IF ~Ok(resp.status)
  THEN LET error == IF resp.body.valid THEN resp.body.json ELSE JObj(<<>>)
       IN IF IsNullish(error) THEN Threw(TypeErrorOn(error))
          ELSE LET message == OptProp(Prop(error, "error"), "message")
               IN Threw(Err("Error",
                     <<"DeepSeek API Error: ", ToString(resp.status), " - ",
                       IF Truthy(message) THEN Interpolate(message)
                                          ELSE "Unknown error">>))
  ELSE IF ~resp.body.valid THEN Threw(SyntaxError)
  ELSE LET data == resp.body.json
       IN IF IsNullish(data) THEN Threw(TypeErrorOn(data))
          ELSE LET choices == Prop(data, "choices")
               IN IF IsNullish(choices) THEN Threw(TypeErrorOn(choices))
                  ELSE LET content ==
                             OptProp(OptProp(First(choices), "message"),
                                     "content")
                       IN IF Truthy(content) THEN Returned(content)
                          ELSE Threw(Err("Error", <<"DeepSeek API Error: ",
                                                    "empty completion">>))

\* chat from the answer of fetch on: resp is the rejection of fetch or the
\* HTTP response, whose body.valid tells whether response.json() parses
chat(resp) ==
  IF resp.kind = "reject" THEN Threw(resp.error)
  ELSE IF ~Ok(resp.status)
  THEN LET error == IF resp.body.valid THEN resp.body.json ELSE JObj(<<>>)
       IN IF IsNullish(error) THEN Threw(TypeErrorOn(error))
          ELSE LET message == OptProp(Prop(error, "error"), "message")
               IN Threw(Err("Error",
                     <<"DeepSeek API Error: ", ToString(resp.status), " - ",
                       IF Truthy(message) THEN Interpolate(message)
                                          ELSE "Unknown error">>))
  ELSE IF ~resp.body.valid THEN Threw(SyntaxError)
  ELSE LET data == resp.body.json
       IN IF IsNullish(data) THEN Threw(TypeErrorOn(data))
          ELSE LET choices == Prop(data, "choices")
               IN IF IsNullish(choices) THEN Threw(TypeErrorOn(choices))
                  ELSE LET content ==
                             OptProp(OptProp(First(choices), "message"),
                                     "content")
                       IN Returned(IF Truthy(content) THEN content
                                                      ELSE JText(<<>>))

\* JSON.parse(result) as AnalysisResult
parseResult(text) ==
  LET p == JSONParse(text.toks)
  IN IF p.ok THEN Returned(p.val) ELSE Threw(SyntaxError)

DeepSeekAdapter_analyzeEntry_request(adapter, text) ==
  chatRequest(adapter, <<SYSTEM_INSTRUCTION_ANALYSIS>>,
              <<ANALYSIS_PROMPT, text, ANALYSIS_FORMAT>>, TRUE)

DeepSeekAdapter_analyzeEntry(resp) ==
  LET result == chat(resp)
  IN IF result.kind = "threw" THEN result ELSE parseResult(result.value)

DeepSeekAdapter_generateReport_request(adapter, es, reportType) ==
  chatRequest(adapter, <<SYSTEM_INSTRUCTION_REPORT>>,
              ReportPrompt(es, reportType), FALSE)

DeepSeekAdapter_generateReport(resp) == chat(resp)

(***************************************************************************)
(* GeminiAdapter.  The transport is the SDK's generateContent: it rejects  *)
(* or resolves with a response that has a text field.                      *)
(***************************************************************************)
GeminiAdapter(apiKey, model) ==
  [variant |-> "gemini", apiKey |-> apiKey, model |-> model]

GeminiAdapter_analyzeEntry_request(adapter, text) ==
  [transport |-> "generateContent",
   apiKey |-> adapter.apiKey,
   model |-> adapter.model,
   contents |-> <<ANALYSIS_PROMPT, text>>,
   responseMimeType |-> "application/json",
   responseSchema |-> "analysisSchema",
   systemInstruction |-> SYSTEM_INSTRUCTION_ANALYSIS]

GeminiAdapter_analyzeEntry(resp) ==
  IF resp.kind = "reject" THEN Threw(resp.error)
  ELSE LET jsonText == resp.text
       IN IF ~Truthy(jsonText) THEN Threw(NoResponseError)
          ELSE parseResult(jsonText)

GeminiAdapter_generateReport_request(adapter, es, reportType) ==
  [transport |-> "generateContent",
   apiKey |-> adapter.apiKey,
   model |-> adapter.model,
   contents |-> ReportPrompt(es, reportType),
   responseMimeType |-> "absent",
   responseSchema |-> "absent",
   systemInstruction |-> SYSTEM_INSTRUCTION_REPORT]

\* GeminiAdapter_generateReport, had it treated an empty text as analyzeEntry
\* does
GeminiAdapter_generateReport_throwsOnEmpty(resp) ==
  IF resp.kind = "reject" THEN Threw(resp.error)
  ELSE IF ~Truthy(resp.text) THEN Threw(NoResponseError)
  ELSE Returned(resp.text)

GeminiAdapter_generateReport(resp) ==
  IF resp.kind = "reject" THEN Threw(resp.error)
  ELSE Returned(IF Truthy(resp.text) THEN resp.text ELSE REPORT_PLACEHOLDER)

(***************************************************************************)
(* AIProviderService.  An async operation is two steps: the synchronous    *)
(* part up to the await of the transport, and the continuation that runs   *)
(* when the transport answers.  A call is a record:                        *)
(*   pc        idle, awaiting (the request is in flight), done             *)
(*   op, args  the operation and its arguments                             *)
(*   adapter   the adapter instance the call constructed                   *)
(*   steps     the steps of the call so far, in the order they ran         *)
(*   requests  the requests the call handed to the transport               *)
(*   response  the answer of the transport                                 *)
(*   raised    the completion of the adapter's method                      *)
(*   outcome   the completion of the service's operation                   *)
(***************************************************************************)
Calls == {"c1", "c2"}

NoAdapter == [variant |-> "none"]

NoResponse == [kind |-> "none"]

IdleCall ==
  [pc |-> "idle", op |-> "none", args |-> [none |-> TRUE],
   adapter |-> NoAdapter, steps |-> <<>>, requests |-> <<>>,
   response |-> NoResponse, raised |-> Pending, outcome |-> Pending]

\* the call ended before any await
Ended(op, args, adapter, steps, raised, outcome) ==
  [pc |-> "done", op |-> op, args |-> args, adapter |-> adapter,
   steps |-> steps, requests |-> <<>>, response |-> NoResponse,
   raised |-> raised, outcome |-> outcome]

\* the call is suspended at the await of its request
Awaiting(op, args, adapter, steps, request) ==
  [pc |-> "awaiting", op |-> op, args |-> args, adapter |-> adapter,
   steps |-> steps, requests |-> <<request>>, response |-> NoResponse,
   raised |-> Pending, outcome |-> Pending]

\* the continuation ran to the end
Settled(call, resp, step, raised, outcome) ==
  [call EXCEPT !.pc = "done", !.response = resp,
               !.steps = Append(call.steps, step),
               !.raised = raised, !.outcome = outcome]

\* rethrow, had the catch wrapped the error in a new one
rethrow_wrapped(completion) ==
  IF completion.kind = "threw"
  THEN Threw(Err("Error", <<"AI request failed: ">> \o completion.error.message))
  ELSE completion

\* catch (error) { console.error(...); throw error; }
rethrow(completion) ==
  IF completion.kind = "threw" THEN Threw(completion.error) ELSE completion

\* analyzeEntry_preconditions without the check of the enabled flag
analyzeEntry_preconditions_keyOnly(s) ==
  LET activeProvider == s.activeProvider
      providerConfig == s.providers[activeProvider]
  IN IF providerConfig.apiKey = ""
     THEN Threw(ConfigureKeyError(activeProvider))
     ELSE Pending

\* the two precondition checks of analyzeEntry: Pending when both pass
analyzeEntry_preconditions(s) ==
  LET activeProvider == s.activeProvider
      providerConfig == s.providers[activeProvider]
  IN IF providerConfig.apiKey = ""
     THEN Threw(ConfigureKeyError(activeProvider))
     ELSE IF ~providerConfig.enabled
     THEN Threw(NotEnabledError(activeProvider))
     ELSE Pending

\* generateReport_preconditions with the two checks in the other order
generateReport_preconditions_enabledFirst(s) ==
  LET activeProvider == s.activeProvider
      providerConfig == s.providers[activeProvider]
  IN IF ~providerConfig.enabled
     THEN Threw(NotEnabledError(activeProvider))
     ELSE IF providerConfig.apiKey = ""
     THEN Threw(ConfigureKeyError(activeProvider))
     ELSE Pending

\* the two precondition checks of generateReport
generateReport_preconditions(s) ==
  LET activeProvider == s.activeProvider
      providerConfig == s.providers[activeProvider]
  IN IF providerConfig.apiKey = ""
     THEN Threw(ConfigureKeyError(activeProvider))
     ELSE IF ~providerConfig.enabled
     THEN Threw(NotEnabledError(activeProvider))
     ELSE Pending

\* analyzeEntry_begin, had it built the gemini adapter with the key of the
\* deepseek configuration
analyzeEntry_begin_deepseekKey(text, s) ==
  LET activeProvider == s.activeProvider
      providerConfig == s.providers[activeProvider]
      args == [text |-> text, settings |-> s]
      pre == analyzeEntry_preconditions(s)
  IN IF pre.kind = "threw"
     THEN Ended("analyzeEntry", args, NoAdapter, <<"check">>, Pending, pre)
     ELSE IF activeProvider = "deepseek"
     THEN LET adapter == DeepSeekAdapter(providerConfig.apiKey,
                                         providerConfig.model)
          IN Awaiting("analyzeEntry", args, adapter,
                      <<"check", "construct", "request">>,
                      DeepSeekAdapter_analyzeEntry_request(adapter, text))
     ELSE LET adapter == GeminiAdapter(s.providers["deepseek"].apiKey,
                                       providerConfig.model)
          IN Awaiting("analyzeEntry", args, adapter,
                      <<"check", "construct", "request">>,
                      GeminiAdapter_analyzeEntry_request(adapter, text))

\* analyzeEntry(text, settings) up to its await
analyzeEntry_begin(text, s) ==
  LET activeProvider == s.activeProvider
      providerConfig == s.providers[activeProvider]
      args == [text |-> text, settings |-> s]
      pre == analyzeEntry_preconditions(s)
  IN IF pre.kind = "threw"
     THEN Ended("analyzeEntry", args, NoAdapter, <<"check">>, Pending, pre)
     ELSE IF activeProvider = "deepseek"
     THEN LET adapter == DeepSeekAdapter(providerConfig.apiKey,
                                         providerConfig.model)
          IN Awaiting("analyzeEntry", args, adapter,
                      <<"check", "construct", "request">>,
                      DeepSeekAdapter_analyzeEntry_request(adapter, text))
     ELSE LET adapter == GeminiAdapter(providerConfig.apiKey,
                                       providerConfig.model)
          IN Awaiting("analyzeEntry", args, adapter,
                      <<"check", "construct", "request">>,
                      GeminiAdapter_analyzeEntry_request(adapter, text))

\* analyzeEntry_resume, had it tried once more after a failed request
analyzeEntry_resume_retry(call, resp) ==
  LET raised == IF call.adapter.variant = "deepseek"
                THEN DeepSeekAdapter_analyzeEntry(resp)
                ELSE GeminiAdapter_analyzeEntry(resp)
  IN IF raised.kind = "threw" /\ Len(call.requests) < 2
     THEN [call EXCEPT !.requests = Append(call.requests, call.requests[1]),
                       !.steps = Append(call.steps, "request")]
     ELSE Settled(call, resp, "settle", raised, rethrow(raised))

\* analyzeEntry from the answer of the transport on
analyzeEntry_resume(call, resp) ==
  LET raised == IF call.adapter.variant = "deepseek"
                THEN DeepSeekAdapter_analyzeEntry(resp)
                ELSE GeminiAdapter_analyzeEntry(resp)
  IN Settled(call, resp, "settle", raised, rethrow(raised))

\* generateReport_begin, had the adapters not looked at the number of entries
generateReport_begin_noEmptyCheck(es, reportType, s) ==
  LET activeProvider == s.activeProvider
      providerConfig == s.providers[activeProvider]
      args == [entries |-> es, reportType |-> reportType, settings |-> s]
      pre == generateReport_preconditions(s)
  IN IF pre.kind = "threw"
     THEN Ended("generateReport", args, NoAdapter, <<"check">>, Pending, pre)
     ELSE IF activeProvider = "deepseek"
     THEN LET adapter == DeepSeekAdapter(providerConfig.apiKey,
                                         providerConfig.model)
          IN Awaiting("generateReport", args, adapter,
                      <<"check", "construct", "request">>,
                      DeepSeekAdapter_generateReport_request(
                        adapter, es, reportType))
     ELSE LET adapter == GeminiAdapter(providerConfig.apiKey,
                                       providerConfig.model)
          IN Awaiting("generateReport", args, adapter,
                      <<"check", "construct", "request">>,
                      GeminiAdapter_generateReport_request(
                        adapter, es, reportType))

\* generateReport(entries, reportType, settings) up to its await
generateReport_begin(es, reportType, s) ==
  LET activeProvider == s.activeProvider
      providerConfig == s.providers[activeProvider]
      args == [entries |-> es, reportType |-> reportType, settings |-> s]
      pre == generateReport_preconditions(s)
  IN IF pre.kind = "threw"
     THEN Ended("generateReport", args, NoAdapter, <<"check">>, Pending, pre)
     ELSE LET adapter == IF activeProvider = "deepseek"
                         THEN DeepSeekAdapter(providerConfig.apiKey,
                                              providerConfig.model)
                         ELSE GeminiAdapter(providerConfig.apiKey,
                                            providerConfig.model)
          IN IF Len(es) = 0
             THEN Ended("generateReport", args, adapter,
                        <<"check", "construct", "settle">>,
                        Returned(NOTHING_TO_ANALYZE),
                        Returned(NOTHING_TO_ANALYZE))
             ELSE Awaiting("generateReport", args, adapter,
                    <<"check", "construct", "request">>,
                    IF activeProvider = "deepseek"
                    THEN DeepSeekAdapter_generateReport_request(
                           adapter, es, reportType)
                    ELSE GeminiAdapter_generateReport_request(
                           adapter, es, reportType))

\* generateReport from the answer of the transport on
generateReport_resume(call, resp) ==
  LET raised == IF call.adapter.variant = "deepseek"
                THEN DeepSeekAdapter_generateReport(resp)
                ELSE GeminiAdapter_generateReport(resp)
  IN Settled(call, resp, "settle", raised, rethrow(raised))

\* getModels, had the lists been kept newest model first
getModels_newestFirst(provider) ==
  IF provider = "deepseek"
  THEN <<"deepseek-reasoner", "deepseek-chat">>
  ELSE <<"gemini-2.0-flash-lite", "gemini-2.0-flash", "gemini-1.5-pro">>

getModels(provider) ==
  IF provider = "deepseek"
  THEN <<"deepseek-chat", "deepseek-reasoner">>
  ELSE <<"gemini-2.0-flash", "gemini-2.0-flash-lite", "gemini-1.5-pro">>

getReportTypeInfo(type) == REPORT_PROMPTS[type]

\* validateApiKey(provider, apiKey) up to its await.  ctorThrows: whether
\* the SDK's constructor rejects the key (the SDK decides; the catch of
\* validateApiKey covers it)
validateApiKey_begin(provider, apiKey, ctorThrows) ==
  LET args == [provider |-> provider, apiKey |-> apiKey]
  IN IF provider = "deepseek"
     THEN LET adapter == DeepSeekAdapter(apiKey, "deepseek-chat")
          IN Awaiting("validateApiKey", args, adapter,
                      <<"construct", "request">>,
                      chatRequest(adapter, <<"You are a test assistant.">>,
                                  <<"Say \"OK\" if you can hear me.">>,
                                  FALSE))
     ELSE IF ctorThrows
     THEN Ended("validateApiKey", args, NoAdapter, <<"construct">>,
                Threw(Err("Error", <<"An API Key must be set">>)),
                Returned(JBool(FALSE)))
     ELSE Awaiting("validateApiKey", args,
                   [variant |-> "sdk", apiKey |-> apiKey],
                   <<"construct", "request">>,
                   [transport |-> "generateContent",
                    apiKey |-> apiKey,
                    model |-> "gemini-2.0-flash",
                    contents |-> <<"Say \"OK\"">>,
                    responseMimeType |-> "absent",
                    responseSchema |-> "absent",
                    systemInstruction |-> "absent"])

\* validateApiKey_resume without the catch
validateApiKey_resume_noCatch(call, resp) ==
  LET raised == IF call.adapter.variant = "deepseek"
                THEN chat(resp)
                ELSE IF resp.kind = "reject" THEN Threw(resp.error)
                ELSE Returned(JUndefined)
  IN Settled(call, resp, "settle", raised,
             IF raised.kind = "threw" THEN raised
             ELSE Returned(JBool(TRUE)))

\* validateApiKey from the answer of the transport on
validateApiKey_resume(call, resp) ==
  LET raised == IF call.adapter.variant = "deepseek"
                THEN chat(resp)
                ELSE IF resp.kind = "reject" THEN Threw(resp.error)
                ELSE Returned(JUndefined)
  IN Settled(call, resp, "settle", raised,
             Returned(JBool(raised.kind # "threw")))

(***************************************************************************)
(* The inputs of the model.                                                *)
(***************************************************************************)
\* not configured, blank, configured
ApiKeys == {"", " ", "sk-test"}

\* the configurations of the active provider p
ActiveConfigs(p) ==
  {[type |-> p, apiKey |-> k, model |-> getModels(p)[m], enabled |-> e] :
     k \in ApiKeys, m \in 1..Len(getModels(p)), e \in BOOLEAN}

\* the configurations of the other provider p: the default one, and a
\* configured one that differs from the active one in every field
OtherConfigs(p) ==
  {DEFAULT_SETTINGS.providers[p],
   [type |-> p, apiKey |-> "sk-other", model |-> getModels(p)[2],
    enabled |-> TRUE]}

SettingsDomain ==
  {[activeProvider |-> "deepseek",
    providers |-> [deepseek |-> a, gemini |-> o],
    language |-> "zh", autoAnalyze |-> FALSE] :
     a \in ActiveConfigs("deepseek"), o \in OtherConfigs("gemini")}
  \cup
  {[activeProvider |-> "gemini",
    providers |-> [deepseek |-> o, gemini |-> a],
    language |-> "zh", autoAnalyze |-> FALSE] :
     a \in ActiveConfigs("gemini"), o \in OtherConfigs("deepseek")}

\* the entry with id i
EntryOf(i) ==
  [id |-> i,
   title |-> IF i = 1 THEN "Monday" ELSE "Later",
   content |-> IF i = 1 THEN "I had a great day" ELSE "Rain",
   date |-> <<IF i = 1 THEN "2024-01-01" ELSE "2024-01-02", "T",
              "08:00:00.000Z">>]

\* the lists of at most MaxEntries entries with distinct ids
EntryLists ==
  {es \in UNION {[1..n -> {EntryOf(i) : i \in 1..MaxEntries}] :
                   n \in 0..MaxEntries} :
     \A i, j \in 1..Len(es) : i # j => es[i].id # es[j].id}

Texts == {"I had a great day"}

\* the six fields of AnalysisResult
RequiredFields ==
  <<"sentiment", "sentimentScore", "summary", "tags", "mood", "suggestions">>

ValidResult ==
  JObj(<<Member("sentiment", JStr("positive")),
         Member("sentimentScore", JNum(80)),
         Member("summary", JStr("Good day")),
         Member("tags", JArr(<<JStr("work")>>)),
         Member("mood", JStr(":)")),
         Member("suggestions", JArr(<<JStr("Keep it up")>>))>>)

\* ValidResult without its member number i
Without(i) ==
  JObj(SubSeq(ValidResult.members, 1, i - 1)
       \o SubSeq(ValidResult.members, i + 1, Len(ValidResult.members)))

\* the texts a provider answers with
ResponseTexts ==
  {JText(<<>>),
   JText(<<W("OK")>>),
   JText(<<P("{"), S("sentiment"), P(":")>>),
   JText(<<W("null")>>),
   JText(JSONStringify(JObj(<<>>))),
   JText(JSONStringify(Without(1))),
   JText(JSONStringify(Without(6))),
   JText(JSONStringify(ValidResult))}

\* the body of an HTTP response, as response.json() sees it
InvalidBody == [valid |-> FALSE, json |-> JUndefined]

Body(v) == [valid |-> TRUE, json |-> v]

SuccessBodies ==
  {InvalidBody, Body(JNull), Body(JObj(<<>>)),
   Body(JObj(<<Member("choices", JArr(<<>>))>>)),
   Body(JObj(<<Member("choices", JArr(<<JObj(<<>>)>>))>>)),
   Body(JObj(<<Member("choices",
      JArr(<<JObj(<<Member("message", JObj(<<>>))>>)>>))>>))}
  \cup
  {Body(JObj(<<Member("choices",
      JArr(<<JObj(<<Member("message",
         JObj(<<Member("content", t)>>))>>)>>))>>)) : t \in ResponseTexts}

ErrorBodies ==
  {InvalidBody, Body(JNull), Body(JObj(<<>>)),
   Body(JObj(<<Member("error", JObj(<<>>))>>)),
   Body(JObj(<<Member("error", JStr("overloaded"))>>)),
   Body(JObj(<<Member("error",
      JObj(<<Member("message", JStr(""))>>))>>)),
   Body(JObj(<<Member("error",
      JObj(<<Member("message", JStr("server overloaded"))>>))>>))}

Statuses == {200, 201, 401, 500}

NetworkError == Err("TypeError", <<"Failed to fetch">>)

\* what fetch answers
FetchResponses ==
  {[kind |-> "reject", error |-> NetworkError]}
  \cup {[kind |-> "http", status |-> st, body |-> b] :
          st \in {x \in Statuses : Ok(x)}, b \in SuccessBodies}
  \cup {[kind |-> "http", status |-> st, body |-> b] :
          st \in {x \in Statuses : ~Ok(x)}, b \in ErrorBodies}

\* what the SDK's generateContent answers
SdkResponses ==
  {[kind |-> "reject", error |-> NetworkError],
   [kind |-> "reject", error |-> Err("ApiError", <<"401", "API key not valid">>)],
   [kind |-> "resolve", text |-> JUndefined]}
  \cup {[kind |-> "resolve", text |-> t] : t \in ResponseTexts}

ResponsesTo(request) ==
  IF request.transport = "fetch" THEN FetchResponses ELSE SdkResponses

(***************************************************************************)
(* The persisted stores (localStorage) and the App state.                  *)
(***************************************************************************)
Absent == [state |-> "absent"]

Stored(v) == [state |-> "json", value |-> v]

NoCall == [op |-> "none"]

\* the stored text, for a store whose text matters
StoredText(toks) == [state |-> "text", text |-> toks]

\* no Editor, no AnalyticsDashboard is mounted
NoEditor == [mounted |-> FALSE]

NoDashboard == [mounted |-> FALSE]

\* call slot c belongs to no handler
NoClosure == [owner |-> "none"]
NoResult == [provider |-> "none"]
NoPanel == [mounted |-> FALSE]

\* the state of the App component besides settings and entries, and of the
\* components it renders:
\*   loaded           whether the initial load ran
\*   selectedEntryId  the id of the selected entry (0: null)
\*   crashed          whether an error left the render of App
\*   viewMode         the view shown
\*   reports          the report history
\*   editor           the state of the mounted Editor
\*   dashboard        the state of the mounted AnalyticsDashboard
\*   closures         for each pending call, what its handler captured when
\*                    it was dispatched
MountedUi ==
  [loaded |-> FALSE, selectedEntryId |-> 0, crashed |-> FALSE,
   viewMode |-> "editor", reports |-> <<>>,
   editor |-> NoEditor, dashboard |-> NoDashboard, panel |-> NoPanel,
   closures |-> [c \in Calls |-> NoClosure]]

InitialUi == [MountedUi EXCEPT !.loaded = TRUE]

Init ==
  /\ settings \in SettingsDomain
  /\ entries \in EntryLists
  /\ storage \in
       {[entries |-> Stored(entries), settings |-> st, reports |-> Stored(<<>>)] :
          st \in {Stored(settings)}
                 \cup (IF settings = DEFAULT_SETTINGS THEN {Absent} ELSE {})}
  /\ calls = [c \in Calls |-> IdleCall]
  /\ last = NoCall
  /\ ui = InitialUi

\* no call is in flight or waiting to be taken by its caller
Quiet == \A c \in Calls : calls[c].pc = "idle"

(***************************************************************************)
(* Actions.  In Spec one call runs at a time and the settings are written  *)
(* between calls (Quiet, in Next).                                         *)
(***************************************************************************)

\* handleSettingsChange, had the calls in flight shared one adapter that
\* follows the settings
handleSettingsChange_sharedAdapter(newSettings) ==
  /\ newSettings # settings
  /\ settings' = newSettings
  /\ storage' = [storage EXCEPT !.settings = Stored(newSettings)]
  /\ calls' = [c \in Calls |->
       IF calls[c].pc = "awaiting" /\ calls[c].op # "validateApiKey"
       THEN [calls[c] EXCEPT
               !.adapter.apiKey =
                  newSettings.providers[newSettings.activeProvider].apiKey]
       ELSE calls[c]]
  /\ UNCHANGED <<entries, last, ui>>

\* App.handleSettingsChange: the store writes the settings
handleSettingsChange(newSettings) ==
  /\ newSettings # settings
  /\ settings' = newSettings
  /\ storage' = [storage EXCEPT !.settings = Stored(newSettings)]
  /\ UNCHANGED <<entries, calls, last, ui>>

\* a caller calls AIProviderService.analyzeEntry with the App's settings
analyzeEntry(c, text) ==
  /\ calls' = [calls EXCEPT ![c] = analyzeEntry_begin(text, settings)]
  /\ UNCHANGED <<settings, entries, storage, last, ui>>

\* a caller calls AIProviderService.generateReport with the App's entries
generateReport(c, reportType) ==
  /\ calls' = [calls EXCEPT ![c] =
                 generateReport_begin(entries, reportType, settings)]
  /\ UNCHANGED <<settings, entries, storage, last, ui>>

validateApiKey(c, provider, apiKey, ctorThrows) ==
  /\ calls' = [calls EXCEPT ![c] =
                 validateApiKey_begin(provider, apiKey, ctorThrows)]
  /\ UNCHANGED <<settings, entries, storage, last, ui>>

getModelsCall(c, provider) ==
  /\ calls' = [calls EXCEPT ![c] =
       Ended("getModels", [provider |-> provider], NoAdapter, <<"settle">>,
             Pending,
             Returned(JArr([i \in 1..Len(getModels(provider)) |->
                              JStr(getModels(provider)[i])])))]
  /\ UNCHANGED <<settings, entries, storage, last, ui>>

getReportTypeInfoCall(c, type) ==
  /\ calls' = [calls EXCEPT ![c] =
       Ended("getReportTypeInfo", [type |-> type], NoAdapter, <<"settle">>,
             Pending,
             Returned(JObj(<<Member("title", JStr(getReportTypeInfo(type).title)),
                             Member("prompt", JStr(getReportTypeInfo(type).prompt))>>)))]
  /\ UNCHANGED <<settings, entries, storage, last, ui>>

\* TransportAnswers, had the service switched the provider off in the
\* settings when a request failed
TransportAnswers_disablesProvider(c, resp) ==
  /\ calls[c].pc = "awaiting"
  /\ resp \in ResponsesTo(calls[c].requests[Len(calls[c].requests)])
  /\ calls' = [calls EXCEPT ![c] =
       CASE calls[c].op = "analyzeEntry" -> analyzeEntry_resume(calls[c], resp)
         [] calls[c].op = "generateReport" -> generateReport_resume(calls[c], resp)
         [] calls[c].op = "validateApiKey" -> validateApiKey_resume(calls[c], resp)]
  /\ settings' = IF resp.kind = "reject"
                 THEN [settings EXCEPT
                         !.providers[settings.activeProvider].enabled = FALSE]
                 ELSE settings
  /\ UNCHANGED <<entries, storage, last, ui>>

\* the transport answers the request of call c and the call continues
TransportAnswers(c, resp) ==
  /\ calls[c].pc = "awaiting"
  /\ resp \in ResponsesTo(calls[c].requests[Len(calls[c].requests)])
  /\ calls' = [calls EXCEPT ![c] =
       CASE calls[c].op = "analyzeEntry" -> analyzeEntry_resume(calls[c], resp)
         [] calls[c].op = "generateReport" -> generateReport_resume(calls[c], resp)
         [] calls[c].op = "validateApiKey" -> validateApiKey_resume(calls[c], resp)]
  /\ UNCHANGED <<settings, entries, storage, last, ui>>

\* the caller takes the outcome of call c
Return(c) ==
  /\ calls[c].pc = "done"
  /\ calls' = [calls EXCEPT ![c] = IdleCall]
  /\ UNCHANGED <<settings, entries, storage, last, ui>>

Next ==
  \/ \E s \in SettingsDomain : Quiet /\ handleSettingsChange(s)
  \/ \E c \in Calls, text \in Texts : Quiet /\ analyzeEntry(c, text)
  \/ \E c \in Calls, reportType \in ReportType : Quiet /\ generateReport(c, reportType)
  \/ \E c \in Calls, provider \in AIProviderType, apiKey \in ApiKeys,
        ctorThrows \in BOOLEAN :
       /\ Quiet
       /\ ctorThrows => (provider = "gemini" /\ apiKey = "")
       /\ validateApiKey(c, provider, apiKey, ctorThrows)
  \/ \E c \in Calls, provider \in AIProviderType : Quiet /\ getModelsCall(c, provider)
  \/ \E c \in Calls, type \in ReportType : Quiet /\ getReportTypeInfoCall(c, type)
  \/ \E c \in Calls, resp \in FetchResponses \cup SdkResponses :
       TransportAnswers(c, resp)
  \/ \E c \in Calls : Return(c)

Spec == Init /\ [][Next]_vars

(***************************************************************************)
(* A second specification, in which the caller remembers the call it took  *)
(* last: the operation, its arguments, the answer of the transport and the *)
(* outcome.  Its settings, entries and answers are a part of those of Spec.*)
(***************************************************************************)
RepeatSettings ==
  {s \in SettingsDomain :
     /\ s.providers[s.activeProvider].apiKey # " "
     /\ s.providers[s.activeProvider].model = getModels(s.activeProvider)[1]
     /\ \A p \in AIProviderType :
          p # s.activeProvider => s.providers[p] = DEFAULT_SETTINGS.providers[p]}

RepeatResponses ==
  {r \in FetchResponses :
     \/ r.kind = "reject"
     \/ /\ r.kind = "http"
        /\ r.status \in {200, 500}
        /\ r.body \in {InvalidBody,
                       Body(JObj(<<Member("error",
                          JObj(<<Member("message", JStr("server overloaded"))>>))>>)),
                       Body(JObj(<<Member("choices",
                          JArr(<<JObj(<<Member("message",
                             JObj(<<Member("content",
                                JText(JSONStringify(ValidResult)))>>))>>)>>))>>))}}
  \cup
  {r \in SdkResponses :
     \/ r.kind = "reject" /\ r.error = NetworkError
     \/ r.kind = "resolve" /\ r.text \in {JUndefined, JText(JSONStringify(ValidResult))}}

InitRepeat ==
  /\ Init
  /\ settings \in RepeatSettings
  /\ Len(entries) <= 1

\* the caller takes the outcome of call c and remembers the call
ReturnRemembered(c) ==
  /\ calls[c].pc = "done"
  /\ calls' = [calls EXCEPT ![c] = IdleCall]
  /\ last' = [op |-> calls[c].op, args |-> calls[c].args,
              response |-> calls[c].response, outcome |-> calls[c].outcome]
  /\ UNCHANGED <<settings, entries, storage, ui>>

NextRepeat ==
  \/ \E s \in RepeatSettings : Quiet /\ handleSettingsChange(s)
  \/ \E c \in Calls, text \in Texts : Quiet /\ analyzeEntry(c, text)
  \/ \E c \in Calls, reportType \in ReportType : Quiet /\ generateReport(c, reportType)
  \/ \E c \in Calls, provider \in AIProviderType, apiKey \in ApiKeys,
        ctorThrows \in BOOLEAN :
       /\ Quiet
       /\ ctorThrows => (provider = "gemini" /\ apiKey = "")
       /\ validateApiKey(c, provider, apiKey, ctorThrows)
  \/ \E c \in Calls, provider \in AIProviderType : Quiet /\ getModelsCall(c, provider)
  \/ \E c \in Calls, type \in ReportType : Quiet /\ getReportTypeInfoCall(c, type)
  \/ \E c \in Calls, resp \in RepeatResponses : TransportAnswers(c, resp)
  \/ \E c \in Calls : ReturnRemembered(c)

SpecRepeat == InitRepeat /\ [][NextRepeat]_vars

(***************************************************************************)
(* The service under overlapping calls: both calls may be in flight, the   *)
(* settings may be written while a call waits, and the transport answers   *)
(* the pending requests in any order.  Its settings and answers are a part *)
(* of those of SpecRepeat.                                                 *)
(***************************************************************************)
ConcSettings ==
  {s \in RepeatSettings :
     \/ s = DEFAULT_SETTINGS
     \/ /\ s.providers[s.activeProvider].apiKey = "sk-test"
        /\ s.providers[s.activeProvider].enabled}

InitConc ==
  /\ Init
  /\ settings \in ConcSettings
  /\ Len(entries) = 1

Free(c) == calls[c].pc = "idle"

NextConc ==
  \/ \E s \in ConcSettings : handleSettingsChange(s)
  \/ \E c \in Calls, text \in Texts : Free(c) /\ analyzeEntry(c, text)
  \/ \E c \in Calls, reportType \in {"weekly", "yearly"} :
       Free(c) /\ generateReport(c, reportType)
  \/ \E c \in Calls, provider \in AIProviderType :
       Free(c) /\ validateApiKey(c, provider, "sk-test", FALSE)
  \/ \E c \in Calls, resp \in RepeatResponses : TransportAnswers(c, resp)
  \/ \E c \in Calls : Return(c)

SpecConc == InitConc /\ [][NextConc]_vars

(***************************************************************************)
(* analyzeEntry over the valid results: the provider answers with the JSON *)
(* text of any AnalysisResult of the domain below.                         *)
(***************************************************************************)
StringLists == {<<>>, <<"work">>, <<"work", "family">>, <<"family", "work">>}

ValidResults ==
  {JObj(<<Member("sentiment", JStr(sentiment)),
          Member("sentimentScore", JNum(score)),
          Member("summary", JStr("Good day")),
          Member("tags", JArr([i \in 1..Len(tags) |-> JStr(tags[i])])),
          Member("mood", JStr(":)")),
          Member("suggestions",
                 JArr([i \in 1..Len(suggestions) |-> JStr(suggestions[i])]))>>) :
     sentiment \in {"positive", "neutral", "negative"},
     score \in {0, 80, 100},
     tags \in StringLists,
     suggestions \in StringLists}

RoundTripResponses ==
  {[kind |-> "http", status |-> 200,
    body |-> Body(JObj(<<Member("choices",
               JArr(<<JObj(<<Member("message",
                  JObj(<<Member("content",
                     JText(JSONStringify(r)))>>))>>)>>))>>))] : r \in ValidResults}
  \cup {[kind |-> "resolve", text |-> JText(JSONStringify(r))] : r \in ValidResults}

InitRoundTrip ==
  /\ Init
  /\ settings \in ConcSettings \ {DEFAULT_SETTINGS}
  /\ entries = <<>>

\* the transport answers the request of call c with the text of a valid result
ProviderAnswersValid(c, resp) ==
  /\ calls[c].pc = "awaiting"
  /\ resp.kind = (IF calls[c].requests[1].transport = "fetch"
                  THEN "http" ELSE "resolve")
  /\ calls' = [calls EXCEPT ![c] = analyzeEntry_resume(calls[c], resp)]
  /\ UNCHANGED <<settings, entries, storage, last, ui>>

NextRoundTrip ==
  \/ \E c \in Calls, text \in Texts : Quiet /\ analyzeEntry(c, text)
  \/ \E c \in Calls, resp \in RoundTripResponses : ProviderAnswersValid(c, resp)
  \/ \E c \in Calls : Return(c)

SpecRoundTrip == InitRoundTrip /\ [][NextRoundTrip]_vars

(***************************************************************************)
(* StorageService.loadSettings.  The settings are JavaScript values here:  *)
(* what was stored may lack fields.                                        *)
(***************************************************************************)
HasKey(v, k) == v.t = "obj" /\ \E i \in 1..Len(v.members) : v.members[i].key = k

\* { ...a, ...b } for an object a: the members of a, each with the value b
\* has for its key when b has one, then the members of b that a lacks;
\* spreading undefined, null or a number adds nothing
Spread(a, b) ==
  IF b.t # "obj" THEN a
  ELSE JObj([i \in 1..Len(a.members) |->
               IF HasKey(b, a.members[i].key)
               THEN Member(a.members[i].key, Prop(b, a.members[i].key))
               ELSE a.members[i]]
            \o SelectSeq(b.members, LAMBDA m : ~HasKey(a, m.key)))

ConfigValue(config) ==
  JObj(<<Member("type", JStr(config.type)),
         Member("apiKey", JStr(config.apiKey)),
         Member("model", JStr(config.model)),
         Member("enabled", JBool(config.enabled))>>)

\* a settings record as the object it is
SettingsValue(s) ==
  JObj(<<Member("activeProvider", JStr(s.activeProvider)),
         Member("providers",
                JObj(<<Member("gemini", ConfigValue(s.providers["gemini"])),
                       Member("deepseek", ConfigValue(s.providers["deepseek"]))>>)),
         Member("language", JStr(s.language)),
         Member("autoAnalyze", JBool(s.autoAnalyze))>>)

loadSettings(stored) ==
  LET defaults == SettingsValue(DEFAULT_SETTINGS) IN
  IF stored = Absent \/ stored.text = <<>> THEN defaults
  ELSE LET p == JSONParse(stored.text) IN
    IF ~p.ok THEN defaults
    ELSE IF IsNullish(p.val) THEN defaults
    ELSE LET parsed == p.val
             providers == Spread(Prop(defaults, "providers"),
                                 Prop(parsed, "providers"))
         IN Spread(Spread(defaults, parsed),
                   JObj(<<Member("providers", providers)>>))

\* the sequences that keep, in order, some of the members of a sequence
RECURSIVE SubSeqs(_)
SubSeqs(seq) ==
  IF seq = <<>> THEN {<<>>}
  ELSE LET rest == SubSeqs(Tail(seq))
       IN rest \cup {<<Head(seq)>> \o r : r \in rest}

\* a provider configuration as an earlier version stored it: any of the
\* fields, with values of the user
StoredConfigs(p) ==
  {JObj(ms) : ms \in SubSeqs(<<Member("type", JStr(p)),
                                Member("apiKey", JStr("sk-stored")),
                                Member("model", JStr(getModels(p)[2])),
                                Member("enabled", JBool(p = "gemini"))>>)}

\* the configurations kept in the stored settings: whole, without one
\* field, and with the key alone
SomeConfigs(p) ==
  {c \in StoredConfigs(p) :
     \/ Len(c.members) >= 3
     \/ c.members = <<Member("apiKey", JStr("sk-stored"))>>}

StoredProviders ==
  {JObj(<<>>)}
  \cup UNION {{JObj(<<Member(p, c)>>) : c \in SomeConfigs(p)} :
                p \in AIProviderType}
  \cup {JObj(<<Member("gemini", g), Member("deepseek", d)>>) :
          g \in {c \in SomeConfigs("gemini") : Len(c.members) = 4},
          d \in SomeConfigs("deepseek")}

StoredSettingsValues ==
  {JObj(top \o prov) :
     top \in SubSeqs(<<Member("activeProvider", JStr("gemini")),
                       Member("language", JStr("en")),
                       Member("autoAnalyze", JBool(TRUE))>>),
     prov \in {<<>>} \cup {<<Member("providers", ps)>> : ps \in StoredProviders}}

\* what localStorage holds under the settings key
StoredSettings ==
  {Absent, StoredText(<<>>), StoredText(<<P("{"), S("activeProvider")>>),
   StoredText(<<W("null")>>), StoredText(<<N(5)>>)}
  \cup {StoredText(JSONStringify(v)) : v \in StoredSettingsValues}

\* the App is mounted and the initial load has not run
InitLoad ==
  /\ settings = SettingsValue(DEFAULT_SETTINGS)
  /\ entries = <<>>
  /\ storage \in {[entries |-> Absent, settings |-> st, reports |-> Absent] :
                    st \in StoredSettings}
  /\ calls = [c \in Calls |-> IdleCall]
  /\ last = NoCall
  /\ ui = MountedUi

\* App, the initial load effect: setSettings(StorageService.loadSettings())
InitialLoad ==
  /\ ~ui.loaded
  /\ settings' = loadSettings(storage.settings)
  /\ ui' = [ui EXCEPT !.loaded = TRUE]
  /\ UNCHANGED <<entries, storage, calls, last>>

\* the page is closed and opened again
Reopen ==
  /\ ui.loaded
  /\ settings' = SettingsValue(DEFAULT_SETTINGS)
  /\ ui' = MountedUi
  /\ UNCHANGED <<entries, storage, calls, last>>

NextLoad == InitialLoad \/ Reopen

SpecLoad == InitLoad /\ [][NextLoad]_vars

(***************************************************************************)
(* The App and its entries.  An entry of the App carries updatedAt, the    *)
(* tick of its last write; a write to localStorage may fail (quota,        *)
(* storage disabled), and then setItem throws.                             *)
(***************************************************************************)
Times == 1..MaxTime

Stamp(e, t) ==
  [id |-> e.id, title |-> e.title, content |-> e.content, date |-> e.date,
   updatedAt |-> t, tags |-> <<>>]

\* StorageService.createEntry()
createEntry(id, t) ==
  [id |-> id, title |-> "", content |-> "",
   date |-> <<"2024-01-03", "T", "08:00:00.000Z">>, updatedAt |-> t,
   tags |-> <<>>]

\* entries.findIndex(e => e.id === id), counted from 1; 0 when there is none
findIndex(es, id) ==
  IF \E i \in 1..Len(es) : es[i].id = id
  THEN CHOOSE i \in 1..Len(es) :
         es[i].id = id /\ \A j \in 1..(i - 1) : es[j].id # id
  ELSE 0

\* entries.find(e => e.id === id), for an id that is there
FindEntry(es, id) == es[findIndex(es, id)]

\* StorageService.loadEntries() with its outcome.  A store written by
\* saveEntry or deleteEntry holds the JSON text of a list and parses to that
\* list; any other text is parsed, and the catch turns the SyntaxError of
\* JSON.parse into the empty list
loadEntries_outcome_noCatch(stored) ==
  IF stored = Absent THEN Returned(<<>>)
  ELSE IF stored.state = "json" THEN Returned(stored.value)
  ELSE IF stored.text = <<>> THEN Returned(<<>>)
  ELSE LET p == JSONParse(stored.text)
       IN IF p.ok THEN Returned(p.val)
          ELSE Threw(Err("SyntaxError", <<"Unexpected token">>))
loadEntries_outcome(stored) ==
  IF stored = Absent THEN Returned(<<>>)
  ELSE IF stored.state = "json" THEN Returned(stored.value)
  ELSE IF stored.text = <<>> THEN Returned(<<>>)
  ELSE LET p == JSONParse(stored.text)
       IN IF p.ok THEN Returned(p.val) ELSE Returned(<<>>)

\* StorageService.loadEntries()
loadEntries(stored) == loadEntries_outcome(stored).value

\* what StorageService.saveEntry(entry) hands to setItem
saveEntry_appending(stored, entry) == Stored(Append(loadEntries(stored), entry))
saveEntry(stored, entry) ==
  LET es == loadEntries(stored)
      index == findIndex(es, entry.id)
  IN IF index >= 1
     THEN Stored([es EXCEPT ![index] = entry])
     ELSE Stored(Append(es, entry))

\* what StorageService.deleteEntry(id) hands to setItem
deleteEntry(stored, id) ==
  Stored(SelectSeq(loadEntries(stored), LAMBDA e : e.id # id))

Ids(es) == {es[i].id : i \in 1..Len(es)}

\* what the Editor passes to onUpdate
Updates ==
  {[title |-> t, content |-> c] : t \in {"Monday", "Renamed"}, c \in {"edited"}}

\* { ...a, ...b } for two records
SpreadFields(a, b) ==
  [k \in DOMAIN a \cup DOMAIN b |-> IF k \in DOMAIN b THEN b[k] ELSE a[k]]

\* { ...entry, ...updates, updatedAt: now }
Updated(entry, updates, t) ==
  SpreadFields(SpreadFields(entry, updates), [updatedAt |-> t])

\* prev.map(entry => entry.id === id ? updated : entry)
UpdatedEntries_upsert(es, id, updates, t) ==
  IF id \in Ids(es)
  THEN [i \in 1..Len(es) |->
          IF es[i].id = id THEN Updated(es[i], updates, t) ELSE es[i]]
  ELSE Append(es, Updated([id |-> id], updates, t))
UpdatedEntries(es, id, updates, t) ==
  [i \in 1..Len(es) |->
     IF es[i].id = id THEN Updated(es[i], updates, t) ELSE es[i]]

\* the store after the saveEntry(updated) of that map
RECURSIVE UpdatedStore(_, _, _, _, _)
UpdatedStore(stored, es, id, updates, t) ==
  IF es = <<>> THEN stored
  ELSE UpdatedStore(IF Head(es).id = id
                    THEN saveEntry(stored, Updated(Head(es), updates, t))
                    ELSE stored,
                    Tail(es), id, updates, t)

\* App renders: the Editor is shown for the selected entry in the editor
\* view, the AnalyticsDashboard in the analytics view.  A component that is
\* no longer rendered is unmounted and one rendered anew starts from its
\* initial state; the Editor that stays mounted resets its local title and
\* content when the id of its entry changes (its effect on [entry.id]) and
\* keeps isAnalyzing.  The handlers of an unmounted component that still
\* wait for a call are no longer live: their setState does nothing.
EditorShown(u, es) == u.viewMode = "editor" /\ u.selectedEntryId \in Ids(es)

Render(u, es) ==
  LET shown == EditorShown(u, es)
      e == FindEntry(es, u.selectedEntryId)
      editor ==
        IF ~shown THEN NoEditor
        ELSE IF ~u.editor.mounted
        THEN [mounted |-> TRUE, entryId |-> e.id, isAnalyzing |-> FALSE,
              localTitle |-> e.title, localContent |-> e.content]
        ELSE IF u.editor.entryId # e.id
        THEN [u.editor EXCEPT !.entryId = e.id, !.localTitle = e.title,
                              !.localContent = e.content]
        ELSE u.editor
      dashboard ==
        IF u.viewMode # "analytics" THEN NoDashboard
        ELSE IF ~u.dashboard.mounted
        THEN [mounted |-> TRUE, isGenerating |-> FALSE, reportType |-> "weekly",
              report |-> JNull]
        ELSE u.dashboard
      panel ==
        IF u.viewMode # "settings" THEN NoPanel
        ELSE IF ~u.panel.mounted
        THEN [mounted |-> TRUE, validating |-> "none",
              validationResult |-> NoResult]
        ELSE u.panel
      closures ==
        [c \in Calls |->
           IF \/ u.closures[c].owner = "editor" /\ ~shown
              \/ u.closures[c].owner = "dashboard" /\ u.viewMode # "analytics"
              \/ u.closures[c].owner = "panel" /\ u.viewMode # "settings"
           THEN [u.closures[c] EXCEPT !.live = FALSE]
           ELSE u.closures[c]]
  IN [u EXCEPT !.editor = editor, !.dashboard = dashboard, !.panel = panel,
               !.closures = closures]

\* the App after its initial load
InitApp ==
  /\ settings = DEFAULT_SETTINGS
  /\ storage \in {[entries |-> st, settings |-> Absent, reports |-> Absent] :
                    st \in {Absent}
                           \cup {Stored([i \in 1..Len(es) |-> Stamp(es[i], 0)]) :
                                   es \in EntryLists}}
  /\ entries = loadEntries(storage.entries)
  /\ calls = [c \in Calls |-> IdleCall]
  /\ last = NoCall
  /\ ui = InitialUi

\* App.handleCreateEntry: the new entry is put in front and selected; it is
\* not written to the store
handleCreateEntry(id, t) ==
  /\ ~ui.crashed
  /\ id \notin Ids(entries) \cup Ids(loadEntries(storage.entries))
  /\ entries' = <<createEntry(id, t)>> \o entries
  /\ ui' = Render([ui EXCEPT !.selectedEntryId = id, !.viewMode = "editor"],
                  entries')
  /\ UNCHANGED <<settings, storage, calls, last>>

\* setSelectedEntryId(id), id = 0 for null
SelectEntry(id) ==
  /\ ~ui.crashed
  /\ id \in Ids(entries) \cup {0}
  /\ id # ui.selectedEntryId
  /\ ui' = Render([ui EXCEPT !.selectedEntryId = id], entries)
  /\ UNCHANGED <<settings, entries, storage, calls, last>>

\* App.handleUpdateEntry(updates) at tick t.  The updater given to
\* setEntries calls StorageService.saveEntry before it returns the new
\* list: when setItem throws, the updater throws, the state keeps the old
\* list and the error leaves the render of App.
handleUpdateEntry(updates, t, writeFails) ==
  /\ ~ui.crashed
  /\ ui.selectedEntryId # 0
  /\ ui.selectedEntryId \in Ids(entries)
  /\ IF writeFails
     THEN /\ ui' = [ui EXCEPT !.crashed = TRUE]
          /\ UNCHANGED <<entries, storage>>
     ELSE /\ entries' = UpdatedEntries(entries, ui.selectedEntryId, updates, t)
          /\ storage' = [storage EXCEPT !.entries =
               UpdatedStore(storage.entries, entries, ui.selectedEntryId,
                            updates, t)]
          /\ UNCHANGED ui
  /\ UNCHANGED <<settings, calls, last>>

\* App.handleDeleteEntry(id): the store is written first; when setItem
\* throws, the handler ends there and nothing has changed
handleDeleteEntry(id, writeFails) ==
  /\ ~ui.crashed
  /\ id \in Ids(entries)
  /\ IF writeFails
     THEN UNCHANGED <<entries, storage, ui>>
     ELSE /\ storage' = [storage EXCEPT !.entries = deleteEntry(storage.entries, id)]
          /\ entries' = SelectSeq(entries, LAMBDA e : e.id # id)
          /\ ui' = Render(IF ui.selectedEntryId = id
                          THEN [ui EXCEPT !.selectedEntryId = 0] ELSE ui,
                          entries')
  /\ UNCHANGED <<settings, calls, last>>

\* new Date(date).getTime(), as the rank of the day among the days in use
getTime(date) ==
  CASE date[1] = "2024-01-01" -> 1
    [] date[1] = "2024-01-02" -> 2
    [] date[1] = "2024-01-03" -> 3

\* list.sort((a, b) => getTime(b.date) - getTime(a.date)): the sort is
\* stable, an element goes behind the elements that are not older
RECURSIVE SortByDateDescending(_)
SortByDateDescending(es) ==
  IF es = <<>> THEN <<>>
  ELSE LET front == SortByDateDescending(SubSeq(es, 1, Len(es) - 1))
           x == es[Len(es)]
           keep == {i \in 1..Len(front) :
                      getTime(front[i].date) >= getTime(x.date)}
       IN SubSeq(front, 1, Cardinality(keep)) \o <<x>>
          \o SubSeq(front, Cardinality(keep) + 1, Len(front))

\* merged of App.handleImport
Merged(es, importedEntries) ==
  SortByDateDescending(
    SelectSeq(importedEntries, LAMBDA e : e.id \notin Ids(es)) \o es)

\* the store after merged.forEach(e => StorageService.saveEntry(e))
RECURSIVE SavedAll(_, _)
SavedAll(stored, es) ==
  IF es = <<>> THEN stored
  ELSE SavedAll(saveEntry(stored, Head(es)), Tail(es))

\* App.handleImport(importedEntries)
handleImport(importedEntries) ==
  /\ ~ui.crashed
  /\ entries' = Merged(entries, importedEntries)
  /\ storage' = [storage EXCEPT !.entries = SavedAll(storage.entries, entries')]
  /\ ui' = Render(ui, entries')
  /\ UNCHANGED <<settings, calls, last>>

\* Sidebar.handleFileUpload: the file is parsed; an array, or the entries of
\* an object when they are an array, go to onImport; anything else, and a
\* file that does not parse, is an alert
handleFileUpload(file) ==
  IF file.kind \in {"array", "object"}
  THEN handleImport(file.entries)
  ELSE UNCHANGED vars

\* an entry of a file: an entry with this id as another device wrote it
ImportedEntry(i, title) ==
  [Stamp(EntryOf(i), 0) EXCEPT !.title = title, !.content = "From the file"]

\* the lists of entries in a file: none, one, two of them, out of order or
\* with the same id
ImportLists ==
  {<<>>}
  \cup {<<ImportedEntry(i, "Imported")>> : i \in 1..MaxEntries}
  \cup {<<ImportedEntry(i, "Imported"), ImportedEntry(j, "Copy")>> :
          i, j \in 1..MaxEntries}

\* the files: a list of entries, a backup object, something else
ImportFiles ==
  {[kind |-> "array", entries |-> es] : es \in ImportLists}
  \cup {[kind |-> "object", entries |-> <<ImportedEntry(1, "Imported")>>],
        [kind |-> "other"]}

\* the time of a write is not before the time of an earlier write
NotBefore(t) == \A i \in 1..Len(entries) : entries[i].updatedAt <= t

NextApp ==
  \/ \E id \in 1..MaxEntries, t \in Times : NotBefore(t) /\ handleCreateEntry(id, t)
  \/ \E id \in 0..MaxEntries : SelectEntry(id)
  \/ \E updates \in Updates, t \in Times, writeFails \in BOOLEAN :
       NotBefore(t) /\ handleUpdateEntry(updates, t, writeFails)
  \/ \E id \in 1..MaxEntries, writeFails \in BOOLEAN :
       handleDeleteEntry(id, writeFails)
  \/ \E file \in ImportFiles : handleFileUpload(file)

SpecApp == InitApp /\ [][NextApp]_vars

(***************************************************************************)
(* The Editor, the AnalyticsDashboard and their provider calls.  A handler *)
(* that awaits a call keeps what it captured when it was dispatched: the   *)
(* onUpdate of that render (with its selectedEntryId), the entry, the      *)
(* report type.  When the transport answers, the service and the handler   *)
(* continue in one run, before any other event.  The store accepts every   *)
(* write here, and every write happens at the tick MaxTime.                *)
(***************************************************************************)
\* the reports kept by StorageService.saveReport
MAX_REPORTS == 50

\* StorageService.loadReports() with its outcome, as loadEntries
loadReports_outcome(stored) ==
  IF stored = Absent THEN Returned(<<>>)
  ELSE IF stored.state = "json" THEN Returned(stored.value)
  ELSE IF stored.text = <<>> THEN Returned(<<>>)
  ELSE LET p == JSONParse(stored.text)
       IN IF p.ok THEN Returned(p.val) ELSE Returned(<<>>)

\* StorageService.loadReports()
loadReports(stored) == loadReports_outcome(stored).value

\* what StorageService.saveReport(report) hands to setItem
saveReport_untrimmed(stored, report) ==
  Stored(<<report>> \o loadReports(stored))
saveReport(stored, report) ==
  LET reports == <<report>> \o loadReports(stored)
  IN Stored(SubSeq(reports, 1, IF Len(reports) < MAX_REPORTS
                               THEN Len(reports) ELSE MAX_REPORTS))

\* what StorageService.deleteReport(id) hands to setItem
deleteReport(stored, id) ==
  Stored(SelectSeq(loadReports(stored), LAMBDA r : r.id # id))

\* [...new Set(items)]: the first occurrence of each item, in order
RECURSIVE Dedupe(_)
Dedupe(items) ==
  IF items = <<>> THEN <<>>
  ELSE LET front == Dedupe(SubSeq(items, 1, Len(items) - 1))
           x == items[Len(items)]
       IN IF \E i \in 1..Len(front) : front[i] = x THEN front
          ELSE Append(front, x)

\* the object handleAnalyze passes to onUpdate, built from the entry it
\* captured and the result: reading a field of null or undefined, and
\* spreading tags that are no array, throw a TypeError
AnalysisUpdates(tags, result) ==
  IF IsNullish(result) THEN Threw(TypeErrorOn(result))
  ELSE IF Prop(result, "tags").t # "arr"
  THEN Threw(Err("TypeError", <<"result.tags is not iterable">>))
  ELSE Returned([sentiment |-> Prop(result, "sentiment"),
                 sentimentScore |-> Prop(result, "sentimentScore"),
                 summary |-> Prop(result, "summary"),
                 tags |-> Dedupe(tags \o Prop(result, "tags").items),
                 mood |-> Prop(result, "mood"),
                 aiAnalysis |-> [suggestions |-> Prop(result, "suggestions")]])

\* the entries in the date range of the report type; the clock is within a
\* week of the date of every entry
filteredEntries(es, reportType) == es

\* deepseek with a key, and gemini with a key but not enabled
UiSettings ==
  {s \in RepeatSettings :
     /\ s.providers[s.activeProvider].apiKey = "sk-test"
     /\ s.providers[s.activeProvider].enabled <=> s.activeProvider = "deepseek"}

\* the answers of the transports: a network failure, a server error, a
\* valid result as content or text, no text
UiResponses ==
  {r \in RepeatResponses :
     r.kind = "http" =>
       /\ r.body # InvalidBody
       /\ r.status = 200 <=> Prop(r.body.json, "choices") # JUndefined}

InitUiSpec ==
  /\ settings \in UiSettings
  /\ storage = [entries |-> Stored(<<Stamp(EntryOf(1), MaxTime),
                                    Stamp(EntryOf(2), MaxTime)>>),
                settings |-> Stored(settings), reports |-> Absent]
  /\ entries = loadEntries(storage.entries)
  /\ calls = [c \in Calls |-> IdleCall]
  /\ last = NoCall
  /\ ui = InitialUi

\* Sidebar: setViewMode(mode)
setViewMode(mode) ==
  /\ mode # ui.viewMode
  /\ ui' = Render([ui EXCEPT !.viewMode = mode], entries)
  /\ UNCHANGED <<settings, entries, storage, calls, last>>

\* what is known of a handleAnalyze that has ended: the outcome of its
\* analyzeEntry, the entry it was requested for, and what it found when it
\* ended: whether that entry was still there, and whether another entry
\* was selected
Analysed(outcome, closure) ==
  [op |-> "handleAnalyze", outcome |-> outcome,
   requested |-> closure.selectedEntryId,
   present |-> closure.selectedEntryId \in Ids(entries),
   otherSelected |-> ui.selectedEntryId \notin {0, closure.selectedEntryId}]

\* Editor.handleAnalyze, from the click on the analyze button (enabled
\* unless isAnalyzing or the content is empty) up to its await
handleAnalyze(c, t) ==
  /\ ui.editor.mounted
  /\ ~ui.editor.isAnalyzing
  /\ ui.editor.localContent # ""
  /\ IF ui.editor.localContent = " "
        \/ settings.providers[settings.activeProvider].apiKey = ""
     THEN UNCHANGED <<entries, storage, calls, last, ui>>
     ELSE LET updates == [title |-> ui.editor.localTitle,
                          content |-> ui.editor.localContent]
              e == FindEntry(entries, ui.selectedEntryId)
              begun == analyzeEntry_begin(ui.editor.localContent, settings)
              closure == [owner |-> "editor", live |-> TRUE,
                          selectedEntryId |-> ui.selectedEntryId,
                          tags |-> e.tags]
          IN /\ entries' = UpdatedEntries(entries, ui.selectedEntryId, updates, t)
             /\ storage' = [storage EXCEPT !.entries =
                  UpdatedStore(storage.entries, entries, ui.selectedEntryId,
                               updates, t)]
             /\ IF begun.pc = "done"
                THEN /\ last' = Analysed(begun.outcome, closure)
                     /\ UNCHANGED <<calls, ui>>
                ELSE /\ calls' = [calls EXCEPT ![c] = begun]
                     /\ ui' = [ui EXCEPT !.editor.isAnalyzing = TRUE,
                                         !.closures[c] = closure]
                     /\ UNCHANGED last
  /\ UNCHANGED settings

\* the id in the onUpdate (App.handleUpdateEntry) that the handler of call c
\* captured: the selectedEntryId of the render in which it was clicked
CapturedEntryId_current(u, c) == u.selectedEntryId
CapturedEntryId(u, c) == u.closures[c].selectedEntryId

\* the transport answers the analyzeEntry of handleAnalyze: the result is
\* passed to the onUpdate the handler captured, a failure is alerted, and
\* finally setIsAnalyzing(false)
handleAnalyze_resume(c, resp, t) ==
  /\ calls[c].pc = "awaiting"
  /\ ui.closures[c].owner = "editor"
  /\ resp \in ResponsesTo(calls[c].requests[1])
  /\ LET closure == ui.closures[c]
         settled == analyzeEntry_resume(calls[c], resp)
         updates == IF settled.outcome.kind = "returned"
                    THEN AnalysisUpdates(closure.tags, settled.outcome.value)
                    ELSE settled.outcome
     IN /\ IF updates.kind = "returned"
           THEN /\ entries' = UpdatedEntries(entries, CapturedEntryId(ui, c),
                                             updates.value, t)
                /\ storage' = [storage EXCEPT !.entries =
                     UpdatedStore(storage.entries, entries,
                                  CapturedEntryId(ui, c), updates.value, t)]
           ELSE UNCHANGED <<entries, storage>>
        /\ ui' = [ui EXCEPT
                    !.closures[c] = NoClosure,
                    !.editor = IF closure.live
                               THEN [@ EXCEPT !.isAnalyzing = FALSE] ELSE @]
        /\ last' = Analysed(settled.outcome, closure)
  /\ calls' = [calls EXCEPT ![c] = IdleCall]
  /\ UNCHANGED settings

\* what handleGenerateReport does once generateReport has settled: on
\* success setReport and the new report goes to the history and the store,
\* on failure an alert; finally setIsGenerating(false)
ReportSettled(u, closure, outcome, t) ==
  LET shown == IF closure.live
               THEN [u EXCEPT !.dashboard.isGenerating = FALSE,
                              !.dashboard.report =
                                 IF outcome.kind = "returned"
                                 THEN outcome.value ELSE @]
               ELSE u
      newReport == [id |-> t, type |-> closure.reportType,
                    content |-> outcome.value,
                    entryCount |-> closure.entryCount, createdAt |-> t]
  IN IF outcome.kind = "returned"
     THEN [ui |-> [shown EXCEPT !.reports = <<newReport>> \o @],
           reports |-> saveReport(storage.reports, newReport)]
     ELSE [ui |-> shown, reports |-> storage.reports]

\* AnalyticsDashboard.handleGenerateReport, from the click on the generate
\* button (enabled unless isGenerating or no entry is in range) up to its
\* await
handleGenerateReport(c, t) ==
  /\ ui.dashboard.mounted
  /\ ~ui.dashboard.isGenerating
  /\ filteredEntries(entries, ui.dashboard.reportType) # <<>>
  /\ Len(ui.reports) < MaxReports
  /\ IF settings.providers[settings.activeProvider].apiKey = ""
     THEN UNCHANGED <<storage, calls, last, ui>>
     ELSE LET es == filteredEntries(entries, ui.dashboard.reportType)
              begun == generateReport_begin(es, ui.dashboard.reportType, settings)
              closure == [owner |-> "dashboard", live |-> TRUE,
                          reportType |-> ui.dashboard.reportType,
                          entryCount |-> Len(es)]
          IN IF begun.pc = "done"
             THEN LET after == ReportSettled(ui, closure, begun.outcome, t)
                  IN /\ ui' = after.ui
                     /\ storage' = [storage EXCEPT !.reports = after.reports]
                     /\ last' = [op |-> "handleGenerateReport", call |-> begun,
                                 closure |-> closure]
                     /\ UNCHANGED calls
             ELSE /\ calls' = [calls EXCEPT ![c] = begun]
                  /\ ui' = [ui EXCEPT !.dashboard.isGenerating = TRUE,
                                      !.closures[c] = closure]
                  /\ UNCHANGED <<storage, last>>
  /\ UNCHANGED <<settings, entries>>

\* the transport answers the generateReport of handleGenerateReport
handleGenerateReport_resume(c, resp, t) ==
  /\ calls[c].pc = "awaiting"
  /\ ui.closures[c].owner = "dashboard"
  /\ resp \in ResponsesTo(calls[c].requests[1])
  /\ LET closure == ui.closures[c]
         settled == generateReport_resume(calls[c], resp)
         after == ReportSettled([ui EXCEPT !.closures[c] = NoClosure],
                                closure, settled.outcome, t)
     IN /\ ui' = after.ui
        /\ storage' = [storage EXCEPT !.reports = after.reports]
        /\ last' = [op |-> "handleGenerateReport", call |-> settled,
                    closure |-> closure]
  /\ calls' = [calls EXCEPT ![c] = IdleCall]
  /\ UNCHANGED <<settings, entries>>

\* the call records are taken in order
Slot(c) == Free(c) /\ \A d \in Calls : Free(d) => c = "c1" \/ d # "c1"

NextUi ==
  \/ \E id \in {0} \cup Ids(entries) : SelectEntry(id)
  \/ \E id \in Ids(entries) : handleDeleteEntry(id, FALSE)
  \/ \E c \in Calls, t \in {MaxTime} : Slot(c) /\ handleAnalyze(c, t)
  \/ \E c \in Calls, resp \in UiResponses, t \in {MaxTime} :
       handleAnalyze_resume(c, resp, t)

\* the Editor and its analyses
SpecUi == InitUiSpec /\ [][NextUi]_vars

NextReports ==
  \/ \E mode \in {"editor", "analytics"} : setViewMode(mode)
  \/ \E id \in Ids(entries) : handleDeleteEntry(id, FALSE)
  \/ \E c \in Calls, t \in {MaxTime} : Slot(c) /\ handleGenerateReport(c, t)
  \/ \E c \in Calls, resp \in UiResponses, t \in {MaxTime} :
       handleGenerateReport_resume(c, resp, t)

\* the AnalyticsDashboard and its reports
SpecReports == InitUiSpec /\ [][NextReports]_vars

(***************************************************************************)
(* The StorageService on its own: its operations called in any order.      *)
(***************************************************************************)
\* the entries a caller saves
SavedEntries ==
  {[Stamp(EntryOf(i), 0) EXCEPT !.title = title] :
     i \in 1..(MaxEntries + 1), title \in {"Monday", "Renamed"}}

\* a store of entries with unique ids, and nothing else in use
InitEntryStore ==
  /\ settings = DEFAULT_SETTINGS
  /\ storage \in {[entries |-> st, settings |-> Absent, reports |-> Absent] :
                    st \in {Absent}
                           \cup {Stored([i \in 1..Len(es) |-> Stamp(es[i], 0)]) :
                                   es \in EntryLists}}
  /\ entries = <<>>
  /\ calls = [c \in Calls |-> IdleCall]
  /\ last = NoCall
  /\ ui = MountedUi

\* a caller calls StorageService.saveEntry(entry)
saveEntryCall(entry) ==
  /\ storage' = [storage EXCEPT !.entries = saveEntry(storage.entries, entry)]
  /\ last' = [op |-> "saveEntry", entry |-> entry,
              index |-> findIndex(loadEntries(storage.entries), entry.id)]
  /\ UNCHANGED <<settings, entries, calls, ui>>

\* a caller calls StorageService.deleteEntry(id)
deleteEntryCall(id) ==
  /\ storage' = [storage EXCEPT !.entries = deleteEntry(storage.entries, id)]
  /\ last' = [op |-> "deleteEntry", id |-> id]
  /\ UNCHANGED <<settings, entries, calls, ui>>

NextEntryStore ==
  \/ \E entry \in SavedEntries : saveEntryCall(entry)
  \/ \E id \in 1..(MaxEntries + 1) : deleteEntryCall(id)

SpecEntryStore == InitEntryStore /\ [][NextEntryStore]_vars

\* the report with this id: the ids follow the clock
ReportOf(id) ==
  [id |-> id, type |-> "weekly", title |-> "Weekly report",
   content |-> "A good week", createdAt |-> id, entryCount |-> 1]

\* no report is stored
InitReportStore ==
  /\ settings = DEFAULT_SETTINGS
  /\ storage = [entries |-> Absent, settings |-> Absent, reports |-> Absent]
  /\ entries = <<>>
  /\ calls = [c \in Calls |-> IdleCall]
  /\ last = NoCall
  /\ ui = MountedUi

\* a caller calls StorageService.saveReport(report)
saveReportCall(report) ==
  /\ storage' = [storage EXCEPT !.reports = saveReport(storage.reports, report)]
  /\ last' = [op |-> "saveReport", id |-> report.id,
              count |-> Len(loadReports(storage.reports))]
  /\ UNCHANGED <<settings, entries, calls, ui>>

\* a caller calls StorageService.deleteReport(id)
deleteReportCall(id) ==
  /\ storage' = [storage EXCEPT !.reports = deleteReport(storage.reports, id)]
  /\ last' = [op |-> "deleteReport", id |-> id,
              count |-> Len(loadReports(storage.reports))]
  /\ UNCHANGED <<settings, entries, calls, ui>>

\* the id of the next report: later than the ids of the stored reports
NextReportId ==
  LET reports == loadReports(storage.reports)
  IN IF reports = <<>> THEN 1 ELSE reports[1].id + 1

\* reports are saved up to the id MaxReportId; the oldest report, or one
\* that is not stored, is deleted
NextReportStore ==
  \/ NextReportId <= MaxReportId /\ saveReportCall(ReportOf(NextReportId))
  \/ \E id \in {0} \cup {loadReports(storage.reports)[i].id :
                            i \in {Len(loadReports(storage.reports))} \ {0}} :
       deleteReportCall(id)

SpecReportStore == InitReportStore /\ [][NextReportStore]_vars

\* what localStorage holds under the key of a list: nothing, the empty
\* string, text that does not parse, and the JSON text of a list
StoredLists(list) ==
  {Absent, StoredText(<<>>), StoredText(<<P("{"), S("id")>>),
   StoredText(<<P("["), P("]")>>), Stored(list)}

\* what localStorage holds under the settings key
SomeStoredSettings ==
  {Absent, StoredText(<<>>), StoredText(<<P("{"), S("activeProvider")>>),
   StoredText(<<W("null")>>), StoredText(<<N(5)>>),
   StoredText(JSONStringify(SettingsValue(DEFAULT_SETTINGS)))}

InitStoreLoad ==
  /\ settings = DEFAULT_SETTINGS
  /\ storage \in [entries : StoredLists(<<Stamp(EntryOf(1), 0)>>),
                   settings : SomeStoredSettings,
                   reports : StoredLists(<<ReportOf(1)>>)]
  /\ entries = <<>>
  /\ calls = [c \in Calls |-> IdleCall]
  /\ last = NoCall
  /\ ui = MountedUi

\* a caller calls StorageService.loadEntries()
loadEntriesCall ==
  /\ last' = [op |-> "loadEntries",
              outcome |-> loadEntries_outcome(storage.entries)]
  /\ UNCHANGED <<settings, entries, storage, calls, ui>>

\* a caller calls StorageService.loadReports()
loadReportsCall ==
  /\ last' = [op |-> "loadReports",
              outcome |-> loadReports_outcome(storage.reports)]
  /\ UNCHANGED <<settings, entries, storage, calls, ui>>

\* a caller calls StorageService.loadSettings(); every throw of its try
\* block is caught
loadSettingsCall ==
  /\ last' = [op |-> "loadSettings",
              outcome |-> Returned(loadSettings(storage.settings))]
  /\ UNCHANGED <<settings, entries, storage, calls, ui>>

NextStoreLoad == loadEntriesCall \/ loadReportsCall \/ loadSettingsCall

SpecStoreLoad == InitStoreLoad /\ [][NextStoreLoad]_vars

(***************************************************************************)
(* The SettingsPanel.  Its handlers build the new settings from the        *)
(* settings prop of the current render and hand them to                    *)
(* App.handleSettingsChange, which sets the state and saves it.            *)
(***************************************************************************)
\* App.handleSettingsChange(newSettings), called by a panel that goes on to u
onSettingsChange(newSettings, u) ==
  /\ settings' = newSettings
  /\ storage' = [storage EXCEPT !.settings = Stored(newSettings)]
  /\ ui' = u
  /\ UNCHANGED <<entries, calls, last>>

\* SettingsPanel.handleProviderToggle(provider)
handleProviderToggle_keepsFlag(provider) ==
  /\ ui.panel.mounted
  /\ provider # settings.activeProvider
  /\ onSettingsChange([settings EXCEPT !.activeProvider = provider], ui)
handleProviderToggle(provider) ==
  /\ ui.panel.mounted
  /\ provider # settings.activeProvider
       \/ ~settings.providers[provider].enabled
  /\ onSettingsChange([settings EXCEPT !.activeProvider = provider,
                                       !.providers[provider].enabled = TRUE],
                      ui)

\* SettingsPanel.handleApiKeyChange(provider, apiKey)
handleApiKeyChange(provider, apiKey) ==
  /\ ui.panel.mounted
  /\ apiKey # settings.providers[provider].apiKey
  /\ onSettingsChange([settings EXCEPT !.providers[provider].apiKey = apiKey],
                      [ui EXCEPT !.panel.validationResult = NoResult])

\* SettingsPanel.handleModelChange(provider, model)
handleModelChange(provider, model) ==
  /\ ui.panel.mounted
  /\ model # settings.providers[provider].model
  /\ onSettingsChange([settings EXCEPT !.providers[provider].model = model], ui)

\* SettingsPanel.handleLanguageChange(language)
handleLanguageChange(language) ==
  /\ ui.panel.mounted
  /\ language # settings.language
  /\ onSettingsChange([settings EXCEPT !.language = language], ui)

\* SettingsPanel.handleAutoAnalyzeToggle
handleAutoAnalyzeToggle ==
  /\ ui.panel.mounted
  /\ onSettingsChange([settings EXCEPT !.autoAnalyze = ~settings.autoAnalyze],
                      ui)

\* what handleValidateApiKey does once validateApiKey has settled: the
\* verdict of a result, false after a throw; finally setValidating(null)
ValidationSettled(u, closure, outcome) ==
  IF closure.live
  THEN [u EXCEPT !.panel.validating = "none",
                 !.panel.validationResult =
                    [provider |-> closure.provider,
                     valid |-> outcome.kind = "returned"
                               /\ Truthy(outcome.value)]]
  ELSE u

\* SettingsPanel.handleValidateApiKey(provider), from the click on the
\* validate button (enabled when the provider has a key and is not being
\* validated) up to its await
handleValidateApiKey(c, provider, ctorThrows) ==
  /\ ui.panel.mounted
  /\ settings.providers[provider].apiKey # ""
  /\ ui.panel.validating # provider
  /\ LET apiKey == settings.providers[provider].apiKey
         begun == validateApiKey_begin(provider, apiKey, ctorThrows)
         closure == [owner |-> "panel", live |-> TRUE, provider |-> provider]
     IN IF begun.pc = "done"
        THEN /\ ui' = ValidationSettled(ui, closure, begun.outcome)
             /\ last' = [op |-> "handleValidateApiKey", call |-> begun,
                         closure |-> closure]
             /\ UNCHANGED calls
        ELSE /\ calls' = [calls EXCEPT ![c] = begun]
             /\ ui' = [ui EXCEPT !.panel.validating = provider,
                                 !.closures[c] = closure]
             /\ UNCHANGED last
  /\ UNCHANGED <<settings, entries, storage>>

\* the transport answers the validateApiKey of handleValidateApiKey
handleValidateApiKey_resume(c, resp) ==
  /\ calls[c].pc = "awaiting"
  /\ ui.closures[c].owner = "panel"
  /\ resp \in ResponsesTo(calls[c].requests[1])
  /\ LET closure == ui.closures[c]
         settled == validateApiKey_resume(calls[c], resp)
     IN /\ ui' = ValidationSettled([ui EXCEPT !.closures[c] = NoClosure],
                                   closure, settled.outcome)
        /\ last' = [op |-> "handleValidateApiKey", call |-> settled,
                    closure |-> closure]
  /\ calls' = [calls EXCEPT ![c] = IdleCall]
  /\ UNCHANGED <<settings, entries, storage>>

\* the App with the settings view open, on the default settings
InitPanel ==
  /\ settings = DEFAULT_SETTINGS
  /\ storage = [entries |-> Absent, settings |-> Absent, reports |-> Absent]
  /\ entries = <<>>
  /\ calls = [c \in Calls |-> IdleCall]
  /\ last = NoCall
  /\ ui = Render([InitialUi EXCEPT !.viewMode = "settings"], <<>>)

NextPanel ==
  \/ \E provider \in AIProviderType : handleProviderToggle(provider)
  \/ \E provider \in AIProviderType, apiKey \in ApiKeys :
       handleApiKeyChange(provider, apiKey)
  \/ \E provider \in AIProviderType :
       \E i \in 1..Len(getModels(provider)) :
         handleModelChange(provider, getModels(provider)[i])
  \/ \E language \in {"zh", "en"} : handleLanguageChange(language)
  \/ handleAutoAnalyzeToggle

\* the handlers of the panel that change the settings
SpecPanel == InitPanel /\ [][NextPanel]_vars

NextValidate ==
  \/ \E mode \in {"editor", "settings"} : setViewMode(mode)
  \/ \E provider \in AIProviderType, apiKey \in ApiKeys :
       handleApiKeyChange(provider, apiKey)
  \/ \E c \in Calls, provider \in AIProviderType, ctorThrows \in BOOLEAN :
       Slot(c) /\ handleValidateApiKey(c, provider, ctorThrows)
  \/ \E c \in Calls, resp \in UiResponses :
       handleValidateApiKey_resume(c, resp)

\* the validation of keys in the panel
SpecValidate == InitPanel /\ [][NextValidate]_vars

(***************************************************************************)
(* Vocabulary of the properties.                                           *)
(***************************************************************************)
\* the configuration of the active provider in the settings a call was given
ActiveConfigOf(call) ==
  call.args.settings.providers[call.args.settings.activeProvider]

\* the call failed with this configuration error
FailedWithConfigErrorOf(call, error) ==
  /\ call.pc = "done"
  /\ call.outcome.kind = "threw"
  /\ call.outcome.error = error

\* the call failed with one of the two configuration errors
FailedWithConfigError(call) ==
  /\ call.pc = "done"
  /\ call.outcome.kind = "threw"
  /\ call.outcome.error \in
       {ConfigureKeyError(call.args.settings.activeProvider),
        NotEnabledError(call.args.settings.activeProvider)}

\* an API key that is empty or consists of white space only
IsBlankKey(apiKey) == apiKey \in {"", " "}

\* piece occurs in the message
Contains(message, piece) == \E i \in 1..Len(message) : message[i] = piece

\* the transport reported a failure: a network failure or a non-2xx status
TransportFailed(resp) ==
  \/ resp.kind = "reject"
  \/ resp.kind = "http" /\ ~Ok(resp.status)

\* the transport reported a success
TransportSucceeded(resp) ==
  \/ resp.kind = "resolve"
  \/ resp.kind = "http" /\ Ok(resp.status)

\* v is an object that has all six fields of AnalysisResult
HasAllFields(v) ==
  /\ v.t = "obj"
  /\ \A i \in 1..Len(RequiredFields) :
       \E j \in 1..Len(v.members) : v.members[j].key = RequiredFields[i]

\* the place of a step in the lifecycle of a call
StepRank(step) ==
  CASE step = "check" -> 1
    [] step = "construct" -> 2
    [] step = "request" -> 3
    [] step = "settle" -> 4

StepsInOrder(steps) ==
  \A i, j \in 1..Len(steps) : i < j => StepRank(steps[i]) < StepRank(steps[j])

(***************************************************************************)
(* C1: analyzeEntry with settings whose active provider has an empty or    *)
(* white-space-only apiKey fails with a configuration error and hands no   *)
(* request to the transport.                                               *)
(***************************************************************************)
C1_BlankKeyIsConfigError ==
  \A c \in Calls :
    (calls[c].op = "analyzeEntry" /\ IsBlankKey(ActiveConfigOf(calls[c]).apiKey))
      => /\ FailedWithConfigError(calls[c])
         /\ calls[c].requests = <<>>

(***************************************************************************)
(* C2: analyzeEntry with settings whose active provider is not enabled     *)
(* fails with a configuration error whatever the apiKey is, and hands no   *)
(* request to the transport.                                               *)
(***************************************************************************)
C2_DisabledIsConfigError ==
  \A c \in Calls :
    (calls[c].op = "analyzeEntry" /\ ~ActiveConfigOf(calls[c]).enabled)
      => /\ FailedWithConfigError(calls[c])
         /\ calls[c].requests = <<>>

C2_Witness ==
  \E c \in Calls :
    /\ calls[c].op = "analyzeEntry"
    /\ ~ActiveConfigOf(calls[c]).enabled
    /\ ActiveConfigOf(calls[c]).apiKey = "sk-test"
    /\ calls[c].pc = "done"
    /\ calls[c].outcome.kind = "threw"

(***************************************************************************)
(* C3, as claimed: generateReport called with zero entries returns the     *)
(* fixed 'nothing to analyze' string without a request to the transport,   *)
(* for every report type and both providers.                               *)
(***************************************************************************)
C3_Original ==
  \A c \in Calls :
    (calls[c].op = "generateReport" /\ Len(calls[c].args.entries) = 0)
      => /\ calls[c].pc = "done"
         /\ calls[c].outcome = Returned(NOTHING_TO_ANALYZE)
         /\ calls[c].requests = <<>>

(***************************************************************************)
(* C3, amended: generateReport called with zero entries hands no request   *)
(* to the transport; it returns the fixed 'nothing to analyze' string when *)
(* the active provider has a non-empty apiKey and is enabled, and fails    *)
(* with the configuration error otherwise.                                 *)
(***************************************************************************)
C3_EmptyReport ==
  \A c \in Calls :
    (calls[c].op = "generateReport" /\ Len(calls[c].args.entries) = 0)
      => /\ calls[c].pc = "done"
         /\ calls[c].requests = <<>>
         /\ IF ActiveConfigOf(calls[c]).apiKey # ""
               /\ ActiveConfigOf(calls[c]).enabled
            THEN calls[c].outcome = Returned(NOTHING_TO_ANALYZE)
            ELSE FailedWithConfigError(calls[c])

C3_Witness ==
  \E c \in Calls :
    /\ calls[c].op = "generateReport"
    /\ Len(calls[c].args.entries) = 0
    /\ calls[c].args.reportType = "yearly"
    /\ calls[c].adapter.variant = "gemini"
    /\ calls[c].outcome = Returned(NOTHING_TO_ANALYZE)

(***************************************************************************)
(* C4, as claimed: validateApiKey never throws; it returns false when the  *)
(* transport reports a non-2xx status or a network failure and true        *)
(* whenever the transport reports a 2xx success.                           *)
(***************************************************************************)
C4_Original ==
  \A c \in Calls :
    (calls[c].op = "validateApiKey" /\ calls[c].pc = "done")
      => /\ calls[c].outcome.kind = "returned"
         /\ TransportFailed(calls[c].response)
              => calls[c].outcome = Returned(JBool(FALSE))
         /\ TransportSucceeded(calls[c].response)
              => calls[c].outcome = Returned(JBool(TRUE))

\* the body of a 2xx answer is one chat can read: JSON, not null, with a
\* choices member that is not null
ReadableBody(resp) ==
  /\ resp.body.valid
  /\ resp.body.json.t = "obj"
  /\ \E i \in 1..Len(resp.body.json.members) :
       /\ resp.body.json.members[i].key = "choices"
       /\ resp.body.json.members[i].value.t \notin {"null", "undefined"}

(***************************************************************************)
(* C4, amended: validateApiKey never throws; it returns false when the     *)
(* transport reports a non-2xx status or a network failure; on a 2xx       *)
(* success it returns true when the answer can be read (Gemini: always;    *)
(* DeepSeek: the body is JSON with a choices member) and false when the    *)
(* body cannot be read.                                                    *)
(***************************************************************************)
C4_ValidateIsBoolean ==
  \A c \in Calls :
    (calls[c].op = "validateApiKey" /\ calls[c].pc = "done")
      => /\ calls[c].outcome.kind = "returned"
         /\ TransportFailed(calls[c].response)
              => calls[c].outcome = Returned(JBool(FALSE))
         /\ TransportSucceeded(calls[c].response)
              => calls[c].outcome =
                   Returned(JBool(calls[c].response.kind = "http"
                                    => ReadableBody(calls[c].response)))

C4_Witness ==
  \E c \in Calls :
    /\ calls[c].op = "validateApiKey"
    /\ calls[c].pc = "done"
    /\ calls[c].response.kind = "http"
    /\ Ok(calls[c].response.status)
    /\ ~ReadableBody(calls[c].response)
    /\ calls[c].outcome = Returned(JBool(FALSE))

\* the text the provider answered with, when the answer carries one
HasAnswerText(call) ==
  \/ call.adapter.variant = "gemini" /\ call.response.kind = "resolve"
                                     /\ call.response.text.t = "text"
  \/ call.adapter.variant = "deepseek" /\ chat(call.response).kind = "returned"
                                       /\ chat(call.response).value.t = "text"

AnswerText(call) ==
  IF call.adapter.variant = "gemini" THEN call.response.text.toks
  ELSE chat(call.response).value.toks

(***************************************************************************)
(* C5: analyzeEntry fails, and returns no result, whenever the text the    *)
(* provider answered with is not JSON or is a JSON object that lacks one   *)
(* of the six required fields; every result analyzeEntry returns has all   *)
(* six fields.                                                             *)
(***************************************************************************)
C5_ResultHasAllFields ==
  \A c \in Calls :
    (calls[c].op = "analyzeEntry" /\ calls[c].pc = "done")
      => /\ (HasAnswerText(calls[c])
             /\ (~JSONParse(AnswerText(calls[c])).ok
                 \/ ~HasAllFields(JSONParse(AnswerText(calls[c])).val)))
              => calls[c].outcome.kind = "threw"
         /\ calls[c].outcome.kind = "returned"
              => HasAllFields(calls[c].outcome.value)

\* the body of a non-2xx answer carries a vendor message: error.message is
\* a non-empty string
HasVendorMessage(body) ==
  /\ body.valid
  /\ body.json.t = "obj"
  /\ Prop(body.json, "error").t = "obj"
  /\ Prop(Prop(body.json, "error"), "message").t = "str"
  /\ Prop(Prop(body.json, "error"), "message").v # ""

(***************************************************************************)
(* C6: when the chat-completions transport answers with a non-2xx status,  *)
(* the DeepSeek path of analyzeEntry and generateReport fails with an      *)
(* error whose text has the HTTP status and the vendor's error.message;    *)
(* when the body has no such message, the text has the status and          *)
(* "Unknown error".                                                        *)
(***************************************************************************)
C6_VendorErrorText ==
  \A c \in Calls :
    (/\ calls[c].op \in {"analyzeEntry", "generateReport"}
     /\ calls[c].pc = "done"
     /\ calls[c].response.kind = "http"
     /\ ~Ok(calls[c].response.status))
      => /\ calls[c].outcome.kind = "threw"
         /\ Contains(calls[c].outcome.error.message,
                     ToString(calls[c].response.status))
         /\ Contains(calls[c].outcome.error.message,
              IF HasVendorMessage(calls[c].response.body)
              THEN Prop(Prop(calls[c].response.body.json, "error"), "message").v
              ELSE "Unknown error")

(***************************************************************************)
(* C7: an error raised by the adapter during analyzeEntry or               *)
(* generateReport reaches the caller as the same error; the service never  *)
(* turns a failure of the adapter into a returned value.                   *)
(***************************************************************************)
C7_RethrownUnchanged ==
  \A c \in Calls :
    (/\ calls[c].op \in {"analyzeEntry", "generateReport"}
     /\ calls[c].pc = "done"
     /\ calls[c].raised.kind = "threw")
      => /\ calls[c].outcome.kind = "threw"
         /\ calls[c].outcome.error = calls[c].raised.error

C7_Witness ==
  \E c \in Calls :
    /\ calls[c].op = "generateReport"
    /\ calls[c].pc = "done"
    /\ calls[c].raised = Threw(NetworkError)
    /\ calls[c].outcome.kind = "threw"

\* the outcome of a call is a failure
IsFailure(call) ==
  \/ call.outcome.kind = "threw"
  \/ call.op = "validateApiKey" /\ call.outcome = Returned(JBool(FALSE))

(***************************************************************************)
(* C8: a call of analyzeEntry, generateReport or validateApiKey hands at   *)
(* most one request to the transport; when that request fails the call     *)
(* ends in failure with no further request; the steps of a call run in the *)
(* order precondition checks, construction of the adapter, one request,    *)
(* parse and return or fail.                                               *)
(***************************************************************************)
C8_SingleAttempt ==
  [][\A c \in Calls :
       /\ Len(calls'[c].requests) <= 1
       /\ StepsInOrder(calls'[c].steps)
       /\ (calls[c].pc = "awaiting" /\ calls'[c] # calls[c])
            => /\ calls'[c].pc = "done"
               /\ calls'[c].requests = calls[c].requests
               /\ TransportFailed(calls'[c].response) => IsFailure(calls'[c])
       /\ (calls[c].pc = "done" /\ calls'[c] # calls[c])
            => calls'[c] = IdleCall]_vars

C8_Witness ==
  \E c \in Calls :
    /\ calls[c].op = "analyzeEntry"
    /\ calls[c].pc = "done"
    /\ TransportFailed(calls[c].response)
    /\ calls[c].steps = <<"check", "construct", "request", "settle">>
    /\ Len(calls[c].requests) = 1
    /\ calls[c].outcome.kind = "threw"

(***************************************************************************)
(* C9: in analyzeEntry and in generateReport the check of the key comes    *)
(* before the check of the enabled flag: with an empty apiKey and          *)
(* enabled = false the call fails with the 'configure API key' error, not  *)
(* the 'provider not enabled' error; generateReport applies the same two   *)
(* checks in the same order as analyzeEntry.                               *)
(***************************************************************************)
C9_KeyCheckFirst ==
  \A c \in Calls :
    calls[c].op \in {"analyzeEntry", "generateReport"}
      => LET activeProvider == calls[c].args.settings.activeProvider
             config == ActiveConfigOf(calls[c])
         IN /\ config.apiKey = ""
                 => calls[c].outcome = Threw(ConfigureKeyError(activeProvider))
            /\ (config.apiKey # "" /\ ~config.enabled)
                 => calls[c].outcome = Threw(NotEnabledError(activeProvider))
            /\ (config.apiKey # "" /\ config.enabled)
                 => /\ calls[c].adapter.variant = activeProvider
                    /\ SubSeq(calls[c].steps, 1, 2) = <<"check", "construct">>

C9_Witness ==
  \E c \in Calls :
    /\ calls[c].op = "generateReport"
    /\ ActiveConfigOf(calls[c]).apiKey = ""
    /\ ~ActiveConfigOf(calls[c]).enabled
    /\ calls[c].outcome.kind = "threw"

(***************************************************************************)
(* C10: no operation of AIProviderService changes the settings, the        *)
(* entries or the persisted stores, whether it succeeds or fails, nor the  *)
(* arguments it was given; the service keeps nothing between calls: a call *)
(* with the arguments and the answer of the call before it has the outcome *)
(* of the call before it.                                                  *)
(***************************************************************************)
C10_ServiceIsStateless ==
  /\ [][calls' # calls =>
          /\ UNCHANGED <<settings, entries, storage, ui>>
          /\ \A c \in Calls :
               (calls[c].pc # "idle" /\ calls'[c].pc # "idle")
                 => /\ calls'[c].args = calls[c].args
                    /\ calls'[c].op = calls[c].op]_vars
  /\ [](\A c \in Calls :
          (/\ calls[c].pc = "done"
           /\ last.op = calls[c].op
           /\ last.args = calls[c].args
           /\ last.response = calls[c].response)
            => last.outcome = calls[c].outcome)

C10_Witness ==
  \E c \in Calls :
    /\ calls[c].pc = "done"
    /\ calls[c].op = "analyzeEntry"
    /\ calls[c].response.kind = "reject"
    /\ last.op = calls[c].op
    /\ last.args = calls[c].args
    /\ last.response = calls[c].response
    /\ settings = calls[c].args.settings


(***************************************************************************)
(* C11.  Overlapping calls.                                                *)
(***************************************************************************)
\* the call as it stands when it runs alone from its own arguments and is
\* given its own answer
AloneAtAwait(call) ==
  CASE call.op = "analyzeEntry" ->
         analyzeEntry_begin(call.args.text, call.args.settings)
    [] call.op = "generateReport" ->
         generateReport_begin(call.args.entries, call.args.reportType,
                              call.args.settings)
    [] call.op = "validateApiKey" ->
         validateApiKey_begin(call.args.provider, call.args.apiKey,
                              call.adapter = NoAdapter)

AloneAfterAnswer(call) ==
  LET begun == AloneAtAwait(call)
  IN CASE call.op = "analyzeEntry" -> analyzeEntry_resume(begun, call.response)
       [] call.op = "generateReport" -> generateReport_resume(begun, call.response)
       [] call.op = "validateApiKey" -> validateApiKey_resume(begun, call.response)

RunsAsAlone(call) ==
  \/ call.pc = "idle"
  \/ call.response = NoResponse /\ call = AloneAtAwait(call)
  \/ /\ call.response # NoResponse
     /\ call.response \in ResponsesTo(AloneAtAwait(call).requests[1])
     /\ call = AloneAfterAnswer(call)

OwnAdapter(call) ==
  (call.op \in {"analyzeEntry", "generateReport"} /\ call.adapter # NoAdapter) =>
    LET s == call.args.settings
    IN /\ call.adapter.variant = s.activeProvider
       /\ call.adapter.apiKey = s.providers[s.activeProvider].apiKey
       /\ call.adapter.model = s.providers[s.activeProvider].model

\* a step of one call, or a write of the settings, leaves every other call
\* as it was
OtherCallsUntouched ==
  \A c, d \in Calls :
    (c # d /\ calls'[c] # calls[c]) => calls'[d] = calls[d]

SettingsWriteLeavesCalls == settings' # settings => calls' = calls

\* C11: with two calls in flight and answers arriving in any order, each
\* call stands exactly where it would stand running alone from its own
\* arguments with the answer to its own request, its adapter holds the key
\* and model of the settings it was started with, and no step of one call
\* or write of the settings changes the other call.
C11_ConcurrentCallsIndependent ==
  /\ [](\A c \in Calls : RunsAsAlone(calls[c]) /\ OwnAdapter(calls[c]))
  /\ [][OtherCallsUntouched /\ SettingsWriteLeavesCalls]_vars

\* an analyzeEntry and a generateReport started under different settings
\* were in flight together; the later one was answered first and both ended
C11_Witness ==
  /\ calls["c1"].op = "analyzeEntry" /\ calls["c2"].op = "generateReport"
  /\ calls["c1"].args.settings # calls["c2"].args.settings
  /\ calls["c1"].adapter # NoAdapter /\ calls["c2"].adapter # NoAdapter
  /\ calls["c1"].adapter.variant # calls["c2"].adapter.variant
  /\ calls["c1"].pc = "awaiting"
  /\ calls["c2"].pc = "done" /\ calls["c2"].outcome.kind = "returned"
  /\ settings = calls["c2"].args.settings


(***************************************************************************)
(* C12.  The model lists.                                                  *)
(***************************************************************************)
ListedModels(provider) ==
  {getModels(provider)[i] : i \in 1..Len(getModels(provider))}

\* C12: getModels gives the two fixed lists in their order, a getModels
\* call ends at once with that list, without a request and without an
\* error; the default model of each provider and the model of every
\* validateApiKey request are in the list of that provider.
C12_ModelLists ==
  /\ getModels("deepseek") = <<"deepseek-chat", "deepseek-reasoner">>
  /\ getModels("gemini") =
       <<"gemini-2.0-flash", "gemini-2.0-flash-lite", "gemini-1.5-pro">>
  /\ \A p \in AIProviderType :
       DEFAULT_SETTINGS.providers[p].model \in ListedModels(p)
  /\ \A c \in Calls :
       /\ calls[c].op = "getModels" =>
            /\ calls[c].pc = "done"
            /\ calls[c].requests = <<>>
            /\ calls[c].raised = Pending
            /\ calls[c].outcome =
                 Returned(JArr(
                   IF calls[c].args.provider = "deepseek"
                   THEN <<JStr("deepseek-chat"), JStr("deepseek-reasoner")>>
                   ELSE <<JStr("gemini-2.0-flash"), JStr("gemini-2.0-flash-lite"),
                          JStr("gemini-1.5-pro")>>))
       /\ (calls[c].op = "validateApiKey" /\ calls[c].requests # <<>>) =>
            \A i \in 1..Len(calls[c].requests) :
              calls[c].requests[i].model \in ListedModels(calls[c].args.provider)

\* a getModels call for gemini has ended
C12_Witness ==
  \E c \in Calls :
    /\ calls[c].op = "getModels"
    /\ calls[c].args.provider = "gemini"
    /\ calls[c].pc = "done"
    /\ calls[c].outcome.kind = "returned"


(***************************************************************************)
(* C13.  Round trip of a valid analysis result.                            *)
(***************************************************************************)
\* C13: when the text the provider answered with is the JSON text of a valid
\* AnalysisResult r, analyzeEntry returns r: each of the six fields has the
\* value it has in r, tags and suggestions in the same order, whichever the
\* provider.
C13_ValidResultRoundTrip ==
  \A c \in Calls :
    (calls[c].op = "analyzeEntry" /\ calls[c].pc = "done"
     /\ HasAnswerText(calls[c]))
      => \A r \in ValidResults :
           AnswerText(calls[c]) = JSONStringify(r)
             => /\ calls[c].outcome.kind = "returned"
                /\ calls[c].outcome.value = r
                /\ \A i \in 1..Len(RequiredFields) :
                     Prop(calls[c].outcome.value, RequiredFields[i])
                       = Prop(r, RequiredFields[i])

\* analyzeEntry has returned, from the gemini adapter, a result whose tags
\* and suggestions hold the same two items in opposite orders
C13_Witness ==
  \E c \in Calls :
    /\ calls[c].op = "analyzeEntry" /\ calls[c].pc = "done"
    /\ calls[c].adapter.variant = "gemini"
    /\ calls[c].outcome.kind = "returned"
    /\ calls[c].outcome.value \in ValidResults
    /\ Prop(calls[c].outcome.value, "tags") = JArr(<<JStr("work"), JStr("family")>>)
    /\ Prop(calls[c].outcome.value, "suggestions")
         = JArr(<<JStr("family"), JStr("work")>>)
    /\ Prop(calls[c].outcome.value, "sentimentScore") = JNum(0)


(***************************************************************************)
(* C14.  The active provider alone decides the adapter.                    *)
(***************************************************************************)
OtherProvider(p) == IF p = "deepseek" THEN "gemini" ELSE "deepseek"

\* the call, run alone with the configuration of the non-active provider
\* replaced by o, given the same answer
WithOtherConfig(call, o) ==
  LET s == call.args.settings
      c2 == [call EXCEPT !.args.settings =
               [s EXCEPT !.providers[OtherProvider(s.activeProvider)] = o]]
  IN IF call.response = NoResponse THEN AloneAtAwait(c2)
     ELSE AloneAfterAnswer(c2)

\* C14: a call of analyzeEntry or generateReport that passed the checks has
\* the adapter variant named by activeProvider, built with the apiKey and
\* the model of that provider; with any other configuration of the
\* non-active provider the call has the same adapter, the same requests and
\* the same outcome.
C14_ActiveProviderDecides ==
  \A c \in Calls :
    (calls[c].op \in {"analyzeEntry", "generateReport"}
     /\ calls[c].adapter # NoAdapter)
      => LET s == calls[c].args.settings
             active == s.providers[s.activeProvider]
         IN /\ calls[c].adapter.variant = s.activeProvider
            /\ calls[c].adapter.apiKey = active.apiKey
            /\ calls[c].adapter.model = active.model
            /\ \A i \in 1..Len(calls[c].requests) :
                 calls[c].requests[i].model = active.model
            /\ \A o \in OtherConfigs(OtherProvider(s.activeProvider)) :
                 LET run == WithOtherConfig(calls[c], o)
                 IN /\ run.adapter = calls[c].adapter
                    /\ run.requests = calls[c].requests
                    /\ run.raised = calls[c].raised
                    /\ run.outcome = calls[c].outcome

\* gemini is active while deepseek is configured, enabled and holds another
\* key and model; a call has been answered and returned
C14_Witness ==
  \E c \in Calls :
    /\ calls[c].op = "generateReport" /\ calls[c].pc = "done"
    /\ calls[c].args.settings.activeProvider = "gemini"
    /\ calls[c].args.settings.providers["deepseek"].enabled
    /\ calls[c].args.settings.providers["deepseek"].apiKey = "sk-other"
    /\ calls[c].adapter # NoAdapter
    /\ calls[c].adapter.apiKey = "sk-test"
    /\ calls[c].outcome.kind = "returned"


(***************************************************************************)
(* C15.  An empty answer text in the gemini adapter.                       *)
(***************************************************************************)
EmptyGeminiAnswer(call) ==
  /\ call.adapter.variant = "gemini"
  /\ call.pc = "done"
  /\ call.response.kind = "resolve"
  /\ call.response.text \in {JUndefined, JText(<<>>)}

\* C15: when the gemini SDK resolves with an absent or empty text,
\* analyzeEntry fails with the "No response" error and generateReport
\* succeeds with the fixed placeholder text.
C15_GeminiEmptyText ==
  \A c \in Calls :
    EmptyGeminiAnswer(calls[c])
      => /\ calls[c].op = "analyzeEntry"
              => /\ calls[c].outcome = Threw(NoResponseError)
                 /\ Contains(calls[c].outcome.error.message,
                             "No response from Gemini AI")
         /\ calls[c].op = "generateReport"
              => /\ calls[c].outcome = Returned(REPORT_PLACEHOLDER)
                 /\ calls[c].raised.kind = "returned"

\* generateReport got the empty text from gemini and returned
C15_Witness ==
  \E c \in Calls :
    /\ EmptyGeminiAnswer(calls[c])
    /\ calls[c].response.text = JText(<<>>)
    /\ calls[c].op = "generateReport"
    /\ calls[c].outcome.kind = "returned"


(***************************************************************************)
(* C16.  A completion without content in the deepseek adapter.             *)
(***************************************************************************)
\* a 2xx answer whose body carries the list of completions, the content of
\* the first completion's message being absent
ContentAbsent(resp) ==
  /\ resp.kind = "http" /\ Ok(resp.status)
  /\ resp.body.valid
  /\ ~IsNullish(resp.body.json)
  /\ Prop(resp.body.json, "choices").t = "arr"
  /\ IsNullish(OptProp(OptProp(First(Prop(resp.body.json, "choices")),
                               "message"), "content"))

C17_DeepSeekRequestShape ==
  \A c \in Calls :
    \A i \in 1..Len(calls[c].requests) :
      LET request == calls[c].requests[i] IN
      request.transport = "fetch"
        => LET system == request.messages[1].content
               suffixed == system # <<>> /\ system[Len(system)] = JSON_ONLY_SUFFIX
               declared == request.response_format = "json_object"
           IN /\ Len(request.messages) = 2
              /\ request.messages[1].role = "system"
              /\ request.messages[2].role = "user"
              /\ request.stream = FALSE
              /\ request.response_format \in {"json_object", "absent"}
              /\ declared <=> suffixed
              /\ declared <=> calls[c].op = "analyzeEntry"
              /\ suffixed <=> Contains(system, JSON_ONLY_SUFFIX)
              /\ calls[c].op \in {"analyzeEntry", "generateReport", "validateApiKey"}

\* a generateReport request to deepseek is in flight, without the format
C17_Witness ==
  \E c \in Calls :
    /\ calls[c].op = "generateReport" /\ calls[c].pc = "awaiting"
    /\ calls[c].requests[1].transport = "fetch"
    /\ calls[c].requests[1].response_format = "absent"


(***************************************************************************)
(* C18.  The report prompt.                                                *)
(***************************************************************************)
\* the user prompt of a report request
UserPrompt(request) ==
  IF request.transport = "fetch" THEN request.messages[2].content
  ELSE request.contents

\* the separator line
SeparatorLine == "\n---\n"

\* the prompt is: the instruction template of the type, the heading of the
\* entries, then for entry k of n a block of the three labelled fields (six
\* pieces), and the separator line between two blocks
PromptHasBlocks(call, dateLabel, titleLabel, contentLabel) ==
  LET prompt == UserPrompt(call.requests[1])
      es == call.args.entries
      n == Len(es)
      at(k) == 2 + 7 * (k - 1)
  IN /\ prompt[1] = REPORT_PROMPTS[call.args.reportType].prompt
     /\ Len(prompt) = 2 + 6 * n + (n - 1)
     /\ \A k \in 1..n :
          /\ prompt[at(k) + 1] = dateLabel
          /\ prompt[at(k) + 2] = es[k].date[1]
          /\ prompt[at(k) + 3] = titleLabel
          /\ prompt[at(k) + 4] = es[k].title
          /\ prompt[at(k) + 5] = contentLabel
          /\ prompt[at(k) + 6] = es[k].content
          /\ k < n => prompt[at(k) + 7] = SeparatorLine
     /\ Cardinality({j \in 1..Len(prompt) : prompt[j] = SeparatorLine}) = n - 1
     /\ ~Contains(prompt, "T")

\* the prompt is the same whichever adapter sends it
SamePromptForBoth(call) ==
  /\ UserPrompt(call.requests[1])
       = UserPrompt(DeepSeekAdapter_generateReport_request(
                      DeepSeekAdapter("k", "m"), call.args.entries,
                      call.args.reportType))
  /\ UserPrompt(call.requests[1])
       = UserPrompt(GeminiAdapter_generateReport_request(
                      GeminiAdapter("k", "m"), call.args.entries,
                      call.args.reportType))

ReportRequested(call) ==
  call.op = "generateReport" /\ call.requests # <<>>

\* C18 as stated: each block is `Date: <iso-date>\nTitle: <title>\nContent:
\* <content>`, one block per entry in input order, n - 1 separator lines,
\* after the instruction template of the requested type, for both providers.
C18_Original ==
  \A c \in Calls :
    ReportRequested(calls[c])
      => /\ PromptHasBlocks(calls[c], "Date: ", "\nTitle: ", "\nContent: ")
         /\ SamePromptForBoth(calls[c])

\* C18, amended: the same layout with the labels the adapters write, the
\* Chinese words for date, title and content; the heading of the entries
\* stands between the instruction template and the first block.
C18_ReportContext ==
  \A c \in Calls :
    ReportRequested(calls[c])
      => /\ PromptHasBlocks(calls[c], "[zh: Date]: ", "\n[zh: Title]: ",
                            "\n[zh: Content]: ")
         /\ UserPrompt(calls[c].requests[1])[2] = "\n\n[zh: Diary entries]:\n"
         /\ SamePromptForBoth(calls[c])

\* a report over two entries, the later entry first, has been requested
C18_Witness ==
  \E c \in Calls :
    /\ ReportRequested(calls[c])
    /\ Len(calls[c].args.entries) = 2
    /\ calls[c].args.entries[1].id > calls[c].args.entries[2].id
    /\ calls[c].adapter.variant = "gemini"


(***************************************************************************)
(* C19.  Loading the settings.                                             *)
(***************************************************************************)
\* the object that was stored, the empty object when none was
StoredObject ==
  IF storage.settings = Absent THEN JObj(<<>>)
  ELSE LET p == JSONParse(storage.settings.text)
       IN IF p.ok /\ p.val.t = "obj" THEN p.val ELSE JObj(<<>>)

ConfigFields == {"type", "apiKey", "model", "enabled"}

\* provider p's field f in the settings value v
ConfigField(v, p, f) == Prop(Prop(Prop(v, "providers"), p), f)

\* C19: after the load, every field of the settings and of both provider
\* configurations is defined: it has the stored value where one was stored
\* and the default value otherwise.
C19_LoadedSettingsComplete ==
  ui.loaded =>
    LET defaults == SettingsValue(DEFAULT_SETTINGS) IN
    /\ \A f \in {"activeProvider", "language", "autoAnalyze"} :
         /\ Prop(settings, f) # JUndefined
         /\ Prop(settings, f) = IF HasKey(StoredObject, f)
                                THEN Prop(StoredObject, f)
                                ELSE Prop(defaults, f)
    /\ \A p \in AIProviderType, f \in ConfigFields :
         /\ ConfigField(settings, p, f) # JUndefined
         /\ ConfigField(settings, p, f)
              = IF ConfigField(StoredObject, p, f) # JUndefined
                THEN ConfigField(StoredObject, p, f)
                ELSE ConfigField(defaults, p, f)


(***************************************************************************)
(* C20.  An entry update whose persistence write fails.                    *)
(***************************************************************************)
\* the step is an update of the selected entry whose write to the store
\* failed
UpdateWithFailedWrite(updates, t) ==
  /\ NotBefore(t)
  /\ handleUpdateEntry(updates, t, TRUE)

\* C20: in a step that updates the selected entry while the write to the
\* store fails, the entry in memory takes the updated value and keeps it
\* (nothing is rolled back), the store is as before, and no error leaves the
\* update.
C20_UpdateSurvivesFailedWrite ==
  [][\A updates \in Updates, t \in Times :
       UpdateWithFailedWrite(updates, t)
         => /\ Len(entries') = Len(entries)
            /\ \A i \in 1..Len(entries) :
                 entries'[i] = IF entries[i].id = ui.selectedEntryId
                               THEN Updated(entries[i], updates, t)
                               ELSE entries[i]
            /\ storage' = storage
            /\ ~ui'.crashed]_vars

\* the calls in flight that were dispatched from the control of a component
InFlightFrom(owner) ==
  {c \in Calls : calls[c].pc = "awaiting" /\ ui.closures[c].owner = owner}

\* C21: from one triggering control at most one provider call is in flight:
\* the generate control of the dashboard and the analyze control of the
\* Editor are disabled while a call dispatched from them has not settled.
C21_OneCallPerControl ==
  /\ Cardinality(InFlightFrom("dashboard")) <= 1
  /\ Cardinality(InFlightFrom("editor")) <= 1
  /\ InFlightFrom("dashboard") # {} /\ ui.dashboard.mounted
       => ui.dashboard.isGenerating
  /\ InFlightFrom("editor") # {} /\ ui.editor.mounted
       => ui.editor.isAnalyzing

\* a step in which the analysis of call c settles and its handler continues
AnalysisArrives(c) ==
  /\ calls[c].pc = "awaiting"
  /\ ui.closures[c].owner = "editor"
  /\ calls'[c].pc = "idle"

\* C22: when the analysis result arrives, it is merged into the entry for
\* which the analysis was requested, whichever entry is selected by then:
\* every other entry, the selected one included, is as before in memory and
\* in the store, and the requested entry carries the result when the
\* analysis succeeded.
C22_LateResultGoesToRequestedEntry ==
  [][\A c \in Calls :
       AnalysisArrives(c) =>
         LET requested == ui.closures[c].selectedEntryId
             before == loadEntries(storage.entries)
             after == loadEntries(storage'.entries)
         IN /\ Len(entries') = Len(entries)
            /\ \A i \in 1..Len(entries) :
                 entries[i].id # requested => entries'[i] = entries[i]
            /\ Ids(after) = Ids(before)
            /\ \A id \in Ids(before) \ {requested} :
                 FindEntry(after, id) = FindEntry(before, id)
            /\ last'.outcome.kind = "returned"
               /\ requested \in Ids(entries)
               /\ Prop(last'.outcome.value, "tags").t = "arr"
                 => /\ "summary" \in DOMAIN FindEntry(entries', requested)
                    /\ FindEntry(entries', requested).summary
                         = Prop(last'.outcome.value, "summary")
                    /\ FindEntry(after, requested)
                         = FindEntry(entries', requested)]_vars

\* an analysis succeeded while another entry than the requested one was
\* selected: the requested entry has the summary, the selected one has none
C22_Witness ==
  /\ last # NoCall
  /\ last.op = "handleAnalyze"
  /\ last.outcome.kind = "returned"
  /\ last.present
  /\ last.otherSelected
  /\ ui.selectedEntryId \in Ids(entries) \ {last.requested}
  /\ last.requested \in Ids(entries)
  /\ "summary" \in DOMAIN FindEntry(entries, last.requested)
  /\ "summary" \notin DOMAIN FindEntry(entries, ui.selectedEntryId)

\* C23: when the analysis of a deleted entry settles, with a result or with
\* a failure, the entry is not re-created: its id is neither in the entries
\* in memory nor in the store, and both are as they were.
C23_DeletedEntryStaysDeleted ==
  [][\A c \in Calls :
       AnalysisArrives(c) /\ ui.closures[c].selectedEntryId \notin Ids(entries)
         => /\ ui.closures[c].selectedEntryId \notin Ids(entries')
            /\ ui.closures[c].selectedEntryId
                 \notin Ids(loadEntries(storage'.entries))
            /\ entries' = entries
            /\ storage' = storage]_vars

\* an analysis succeeded after its entry had been deleted, and the entry is
\* in neither place
C23_Witness ==
  /\ last # NoCall
  /\ last.op = "handleAnalyze"
  /\ last.outcome.kind = "returned"
  /\ ~last.present
  /\ last.requested \notin Ids(entries)
  /\ last.requested \notin Ids(loadEntries(storage.entries))

\* a step in which the validation of call c settles in a mounted panel
ValidationArrives(c) ==
  /\ calls[c].pc = "awaiting"
  /\ ui.closures[c].owner = "panel"
  /\ ui.closures[c].live
  /\ calls'[c].pc = "idle"

\* C24: the validation result the panel displays for a provider refers to
\* the key entered for that provider: when a validation settles and its
\* verdict is displayed, the key it validated is the key in the settings.
C24_VerdictForEnteredKey ==
  [][\A c \in Calls :
       ValidationArrives(c)
       /\ ui'.panel.validationResult.provider = calls[c].args.provider
         => calls[c].args.apiKey
              = settings'.providers[calls[c].args.provider].apiKey]_vars

\* the flag of the active provider is set
ActiveProviderEnabled == settings.providers[settings.activeProvider].enabled

\* C25: from the default settings on, after any panel action the active
\* provider is enabled and a call with these settings does not fail with
\* the "not enabled" error; no panel action clears the enabled flag of a
\* provider.
C25_ActiveProviderEnabled ==
  [][/\ ActiveProviderEnabled'
     /\ \A text \in Texts :
          ~FailedWithConfigErrorOf(analyzeEntry_begin(text, settings'),
                                  NotEnabledError(settings'.activeProvider))
     /\ \A p \in AIProviderType :
          settings.providers[p].enabled => settings'.providers[p].enabled]_vars

\* the panel has switched to gemini, which the default settings leave
\* disabled, and gemini is enabled
C25_Witness ==
  /\ ui.panel.mounted
  /\ settings.activeProvider = "gemini"
  /\ ~DEFAULT_SETTINGS.providers["gemini"].enabled
  /\ settings.providers["gemini"].enabled
  /\ settings.providers["gemini"].apiKey = "sk-test"

\* the entry is as createEntry made it: it was created and never updated
NeverUpdated(e) == e = createEntry(e.id, e.updatedAt)

\* the entry is in the list, field by field
Holds(es, e) == \E i \in 1..Len(es) : es[i] = e

\* C26: as long as every write succeeds, every entry in the store is in
\* memory with the same content, every entry in memory that was updated or
\* imported (or loaded) is in the store, and an entry that was created and
\* never updated is in memory only.
C26_StoreMatchesMemory ==
  LET stored == loadEntries(storage.entries)
  IN /\ \A i \in 1..Len(stored) : Holds(entries, stored[i])
     /\ \A i \in 1..Len(entries) :
          IF NeverUpdated(entries[i])
          THEN entries[i].id \notin Ids(stored)
          ELSE Holds(stored, entries[i])

\* the ids of the list are all different
UniqueIds(es) == \A i, j \in 1..Len(es) : es[i].id = es[j].id => i = j

\* the list is sorted by date, the latest first
SortedByDateDescending(es) ==
  \A i, j \in 1..Len(es) : i < j => getTime(es[i].date) >= getTime(es[j].date)

\* C29: an import leaves every entry that was in memory in memory and as it
\* was, ignores the entries of the file whose id is in memory, leaves a list
\* with unique ids sorted by date descending, and importing the same file
\* once more changes neither memory nor the store.
C29_ImportOnlyAdds ==
  [][\A file \in ImportFiles :
       file.kind # "other" /\ handleFileUpload(file)
         => /\ \A i \in 1..Len(entries) : Holds(entries', entries[i])
            /\ \A i \in 1..Len(file.entries) :
                 file.entries[i].id \in Ids(entries)
                   => \/ Holds(entries, file.entries[i])
                      \/ ~Holds(entries', file.entries[i])
            /\ UniqueIds(entries')
            /\ SortedByDateDescending(entries')
            /\ Merged(entries', file.entries) = entries'
            /\ SavedAll(storage'.entries, entries') = storage'.entries]_vars

\* C27: saveEntry is an upsert by id and deleteEntry removes by id.  From
\* a store with unique ids on, the ids stay unique; saving an entry whose id
\* is stored replaces that entry where it is and leaves the others as they
\* are; saving an entry with a new id appends it; deleteEntry(id) removes
\* the entries with that id and no other, none for an id that is not stored.
C27_SaveEntryUpserts ==
  [][LET before == loadEntries(storage.entries)
         after == loadEntries(storage'.entries)
     IN /\ UniqueIds(before) => UniqueIds(after)
        /\ \A entry \in SavedEntries :
             saveEntryCall(entry) =>
               IF entry.id \in Ids(before)
               THEN /\ Len(after) = Len(before)
                    /\ \A i \in 1..Len(before) :
                         after[i] = IF before[i].id = entry.id
                                    THEN entry ELSE before[i]
               ELSE after = Append(before, entry)
        /\ \A id \in 1..(MaxEntries + 1) :
             deleteEntryCall(id) =>
               /\ after = SelectSeq(before, LAMBDA e : e.id # id)
               /\ id \notin Ids(before) => after = before]_vars

\* the first of two stored entries has just been replaced by a save
C27_Witness ==
  /\ last # NoCall
  /\ last.op = "saveEntry"
  /\ last.index = 1
  /\ Len(loadEntries(storage.entries)) = 2
  /\ loadEntries(storage.entries)[1] = last.entry
  /\ last.entry.title = "Renamed"

\* the reports are in the order of their saving, the newest first
NewestFirst(reports) ==
  \A i, j \in 1..Len(reports) : i < j => reports[i].id > reports[j].id

\* C28: after any saveReport and deleteReport the store holds at most
\* MAX_REPORTS reports, the newest saved first; a saveReport on a full store
\* drops the oldest report and keeps the others behind the new one.
C28_ReportsCapped ==
  [][LET before == loadReports(storage.reports)
         after == loadReports(storage'.reports)
     IN /\ Len(after) <= MAX_REPORTS
        /\ NewestFirst(after)
        /\ saveReportCall(ReportOf(NextReportId))
             => after[1] = ReportOf(NextReportId)
        /\ saveReportCall(ReportOf(NextReportId)) /\ Len(before) = MAX_REPORTS
             => after = <<ReportOf(NextReportId)>>
                        \o SubSeq(before, 1, MAX_REPORTS - 1)]_vars

\* a report has just been saved to a full store, and the store is full
C28_Witness ==
  /\ last # NoCall
  /\ last.op = "saveReport"
  /\ last.count = MAX_REPORTS
  /\ Len(loadReports(storage.reports)) = MAX_REPORTS
  /\ loadReports(storage.reports)[1].id = last.id

\* nothing is stored, or what is stored is no JSON text
NothingToParse(stored) ==
  \/ stored = Absent
  \/ stored.state = "text" /\ ~JSONParse(stored.text).ok

\* C30: loadEntries, loadReports and loadSettings return and do not throw,
\* whatever is stored; when nothing is stored or the text does not parse
\* they return the empty list, or DEFAULT_SETTINGS; the store is as before.
C30_LoadsNeverThrow ==
  [][/\ loadEntriesCall =>
          /\ last'.outcome.kind = "returned"
          /\ NothingToParse(storage.entries) => last'.outcome = Returned(<<>>)
          /\ storage' = storage
     /\ loadReportsCall =>
          /\ last'.outcome.kind = "returned"
          /\ NothingToParse(storage.reports) => last'.outcome = Returned(<<>>)
          /\ storage' = storage
     /\ loadSettingsCall =>
          /\ last'.outcome.kind = "returned"
          /\ NothingToParse(storage.settings)
               => last'.outcome = Returned(SettingsValue(DEFAULT_SETTINGS))
          /\ storage' = storage]_vars

\* loadEntries has returned the empty list for a text that does not parse
C30_Witness ==
  /\ last # NoCall
  /\ last.op = "loadEntries"
  /\ storage.entries # Absent
  /\ storage.entries.state = "text"
  /\ storage.entries.text # <<>>
  /\ ~JSONParse(storage.entries.text).ok
  /\ last.outcome = Returned(<<>>)

====
